---------------------------- MODULE Spec2Model ----------------------------
(***************************************************************************)
(* Model of the Akahu -> budget synchronisation engine:                    *)
(*   modules/transaction_handler.py  (feed reader, write paths, parity)    *)
(*   modules/sync_handler.py         (the two pass orchestrators)          *)
(* Amounts are integers: source dollars in units of 1e-5 dollar (E5),      *)
(* decimals quantized to 1e-4 dollar (E4), cents and milliunits.           *)
(* Timestamps are integer hours, calendar days are integer day numbers.    *)
(***************************************************************************)
EXTENDS Integers, Sequences, FiniteSets, TLC

(***************************************************************************)
(* Bounds of the model.                                                    *)
(***************************************************************************)
MaxPages == 3
MaxItems == 1
MaxRequests == 4
MaxBatch == 2
MaxClock == 4

(***************************************************************************)
(* Python values.                                                          *)
(***************************************************************************)
None == "None"
FirstTime == "first time"
\* A missing or malformed date string, and the null date it converts to.
BadDate == -1
NoDay == -1000
\* The default watermark, "2025-05-05T00:00:00Z", as a clock value.
Epoch == 0
\* No watermark key in a mapping entry, and no watermark given to a fetch.
NoWatermark == -100000
\* No akahu_balance key in a mapping entry.
NoBalance == -999999

VARIABLES
    feed,          \* the source feed of the account being fetched: Seq of pages
    next_cursor,   \* get_all_akahu: next_cursor
    query_cursor,  \* get_all_akahu: query_params.get("cursor") (None when unset)
    res,           \* get_all_akahu: res, the accumulated items (<<>> before page 1)
    requests,      \* the cursor parameter of every GET issued, in order
    pg,            \* get_all_akahu: "idle" | "loop" | "done" | "raised"
    db,            \* destination B: the Transactions rows seen through actual.session
    durable,       \* destination B: how many rows of db the last successful commit covers
    clock,         \* datetime.utcnow(), in ticks
    universe,      \* the source transactions that exist in the scenario
    debug_mode,    \* the debug selector: None | "all" | a source transaction id
    last,          \* the last handler call: its arguments, pre-state and outcome
    mapping_list,  \* the account mapping held in memory: source account id -> entry
    file,          \* the account mapping as persisted by save_mapping
    ynab,          \* destination A: the transactions the service holds, in creation order
    posts,         \* the bodies POSTed to destination A since the running call or pass began
    akahu,         \* the source: account id -> its balance (E4) and its transactions
    run            \* the running pass of sync_to_ab or sync_to_ynab

pageVars == <<feed, next_cursor, query_cursor, res, requests, pg>>
abVars == <<db, durable>>
callVars == <<clock, universe, debug_mode, last>>
mapVars == <<mapping_list, file>>

passVars == <<ynab, posts, akahu, run>>

vars == <<pageVars, abVars, callVars, mapVars, passVars>>

\* What the feed reader leaves alone.
notPage == <<abVars, callVars, mapVars, passVars>>

(***************************************************************************)
(* 1. Source Feed Reader: get_all_akahu                                    *)
(***************************************************************************)

\* The cursor tokens a feed may hand out; the empty string and the literal the
\* loop uses as its start marker are strings like any other.
Tokens == {"", FirstTime, "c1", "c2"}

\* The "cursor" member of a page: absent, an object without "next", or an
\* object whose "next" is null or a token.
CursorForms ==
    { [present |-> FALSE, has_next |-> FALSE, next |-> None],
      [present |-> TRUE,  has_next |-> FALSE, next |-> None],
      [present |-> TRUE,  has_next |-> TRUE,  next |-> None] }
    \cup { [present |-> TRUE, has_next |-> TRUE, next |-> t] : t \in Tokens }

\* The page a feed serves once its data is exhausted.
EndPage == [items |-> <<>>, cursor |-> [present |-> FALSE, has_next |-> FALSE, next |-> None]]

\* The feed's answer to GET .../transactions[?cursor=c]: the first page without
\* a cursor parameter, else the page following the one that handed out c.
ServePage(f, c) ==
    IF c = None
    THEN IF Len(f) > 0 THEN f[1] ELSE EndPage
    ELSE LET from == { i \in 1..Len(f) :
                         f[i].cursor.has_next /\ f[i].cursor.next = c }
         IN  IF from = {} THEN EndPage
             ELSE LET i == CHOOSE j \in from : \A k \in from : j <= k
                  IN  IF i < Len(f) THEN f[i + 1] ELSE EndPage

\* A reader that keeps only the page it fetched last.
Accumulate_Replace(acc, items) == items

\* res after one more page: a copy of the first page, then pd.concat.
Accumulate(acc, items) == acc \o items

\* has_more_pages of one response.
HasMorePages(page) ==
    Len(page.items) > 0 /\ page.cursor.present /\ page.cursor.has_next

\* query_params["cursor"] as sent by the next request.
NextQueryCursor(nc, qc) == IF nc # FirstTime THEN nc ELSE qc

\* One iteration of the while loop whose request succeeds.
FetchPage ==
    /\ pg = "loop"
    /\ next_cursor # None
    /\ Len(requests) < MaxRequests
    /\ LET qc   == NextQueryCursor(next_cursor, query_cursor)
           page == ServePage(feed, qc)
       IN  /\ query_cursor' = qc
           /\ requests' = Append(requests, qc)
           /\ res' = Accumulate(res, page.items)
           /\ next_cursor' = IF HasMorePages(page) THEN page.cursor.next ELSE None
    /\ UNCHANGED <<feed, pg>>
    /\ UNCHANGED notPage

\* A handler that returns what it has accumulated when a request fails.
RequestFailed_ReturnsPartial(acc) == [pg |-> "done", res |-> acc]

\* except requests.exceptions.RequestException: RuntimeError is raised, and
\* the frame accumulated so far goes with the call's locals.
RequestFailed(acc) == [pg |-> "raised", res |-> <<>>]

\* One iteration whose request raises requests.exceptions.RequestException
\* (a transport error, or a non-2xx status through raise_for_status): the
\* handler raises RuntimeError and nothing is returned.
FetchFails ==
    /\ pg = "loop"
    /\ next_cursor # None
    /\ Len(requests) < MaxRequests
    /\ LET qc == NextQueryCursor(next_cursor, query_cursor)
       IN  /\ query_cursor' = qc
           /\ requests' = Append(requests, qc)
    /\ pg' = RequestFailed(res).pg
    /\ res' = RequestFailed(res).res
    /\ UNCHANGED <<feed, next_cursor>>
    /\ UNCHANGED notPage

\* The loop condition fails: return res.
FetchReturn ==
    /\ pg = "loop"
    /\ next_cursor = None
    /\ pg' = "done"
    /\ UNCHANGED <<feed, next_cursor, query_cursor, res, requests>>
    /\ UNCHANGED notPage

(***************************************************************************)
(* 2. Transaction Transcoder and destination B (Actual Budget) write path  *)
(***************************************************************************)

\* Rounding n/d to the nearest integer, ties to even (decimal's default
\* ROUND_HALF_EVEN, and round() on a Decimal).
RoundHalfEven(n, d) ==
    LET q == n \div d
        r == n % d
    IN  IF 2 * r < d THEN q
        ELSE IF 2 * r > d THEN q + 1
        ELSE IF q % 2 = 0 THEN q ELSE q + 1

\* Truncation toward zero of n/d (Python's int() of a quotient).
TruncDiv(n, d) == IF n >= 0 THEN n \div d ELSE -((-n) \div d)

\* decimal.Decimal(amount).quantize(Decimal("0.0001")): E5 -> E4.
Quantize4(e5) == RoundHalfEven(e5, 10)

\* actual's decimal_to_cents, int(round(amount * 100)): E4 -> cents.
DecimalToCents(e4) == RoundHalfEven(e4, 100)

\* convert_to_nzt: UTC hours -> the calendar day 13 hours later; a missing or
\* malformed string gives None.
ConvertToNzt(date_str) ==
    IF date_str = BadDate THEN NoDay ELSE (date_str + 13) \div 24

\* The rows an account query sees: not tombstoned, of that account.
LiveRows(rows, acct) ==
    { i \in 1..Len(rows) : ~rows[i].tombstone /\ rows[i].acct = acct }

\* The element of a non-empty set of row ids that a date-distance sort puts
\* first (ties: the lowest id).
Closest(rows, ids, date) ==
    LET dist(i) == IF rows[i].date >= date THEN rows[i].date - date
                   ELSE date - rows[i].date
    IN  CHOOSE i \in ids :
            \A j \in ids : dist(i) < dist(j) \/ (dist(i) = dist(j) /\ i <= j)

\* A match that never finds a row.
MatchTransaction_Never(rows, date, acct, payee, amount, imported_id, already_matched) == 0

\* actual.queries.match_transaction: the row with this imported id, else the
\* closest row of equal amount within seven days that this batch has not
\* matched yet (same payee first), else none (0).
MatchTransaction(rows, date, acct, payee, amount, imported_id, already_matched) ==
    LET live  == LiveRows(rows, acct)
        byId  == { i \in live : rows[i].financial_id = imported_id }
        cents == DecimalToCents(amount)
        fuzzy == { i \in live : /\ rows[i].amount = cents
                                /\ rows[i].date >= date - 7
                                /\ rows[i].date < date + 8 }
                 \ { already_matched[k] : k \in 1..Len(already_matched) }
        samePayee == { i \in fuzzy : rows[i].payee = payee }
    IN  IF imported_id # None /\ byId # {}
        THEN CHOOSE i \in byId : \A j \in byId : i <= j
        ELSE IF fuzzy = {} THEN 0
        ELSE IF samePayee # {} THEN Closest(rows, samePayee, date)
        ELSE Closest(rows, fuzzy, date)

\* actual.queries.create_transaction: the row it adds to the session.
NewRow(rows, date, acct, payee, notes, amount, imported_id, cleared, imported_payee) ==
    [ id                   |-> Len(rows) + 1,
      acct                 |-> acct,
      date                 |-> date,
      payee                |-> payee,
      notes                |-> notes,
      category             |-> None,
      amount               |-> DecimalToCents(amount),
      financial_id         |-> imported_id,
      cleared              |-> cleared,
      imported_description |-> imported_payee,
      sort_order           |-> Len(rows) + 1,
      tombstone            |-> FALSE ]

CreateTransaction(rows, date, acct, payee, notes, amount, imported_id, cleared, imported_payee) ==
    [ rows    |-> Append(rows, NewRow(rows, date, acct, payee, notes, amount,
                                      imported_id, cleared, imported_payee)),
      id      |-> Len(rows) + 1,
      changed |-> TRUE ]

\* actual.queries.reconcile_transaction: match, optionally update the match's
\* notes and date, else create.
ReconcileTransaction(rows, date, acct, payee, notes, amount, imported_id, cleared, imported_payee, already_matched, update_existing) ==
    LET m == MatchTransaction(rows, date, acct, payee, amount, imported_id,
                              already_matched)
    IN  IF m # 0
        THEN IF update_existing /\ (rows[m].notes # notes \/ rows[m].date # date)
             THEN [ rows    |-> [rows EXCEPT ![m].notes = notes, ![m].date = date],
                    id      |-> m,
                    changed |-> TRUE ]
             ELSE [ rows |-> rows, id |-> m, changed |-> FALSE ]
        ELSE CreateTransaction(rows, date, acct, payee, notes, amount, imported_id,
                               cleared, imported_payee)

\* ruleset.run(transaction): the destination's rules, an opaque capability;
\* here the one rule "imported payee is B -> category Rule".
RunRules(rows, id) ==
    IF rows[id].imported_description = "B"
    THEN [rows EXCEPT ![id].category = "Rule"]
    ELSE rows

\* A debug path that creates the transaction without looking for a match.
DebugReconcile_Creating(rows, date, acct, payee, notes, amount, imported_id, cleared, already_matched) ==
    CreateTransaction(rows, date, acct, payee, notes, amount, imported_id, cleared, payee)

\* The debug path of the loop body: match_transaction, then create_transaction
\* when nothing matched; a match is returned as it is.
DebugReconcile(rows, date, acct, payee, notes, amount, imported_id, cleared, already_matched) ==
    LET m == MatchTransaction(rows, date, acct, payee, amount, imported_id,
                              already_matched)
    IN  IF m # 0
        THEN [ rows |-> rows, id |-> m, changed |-> FALSE ]
        ELSE CreateTransaction(rows, date, acct, payee, notes, amount, imported_id,
                               cleared, payee)

\* The reconcile step with update_existing=True.
ReconcileOne_Updating(rows, txn, acct, already_matched, dbg) ==
    ReconcileTransaction(rows, ConvertToNzt(txn.date), acct, txn.description,
                         txn.description, Quantize4(txn.amount), txn._id, TRUE,
                         txn.description, already_matched, TRUE)

\* The reconcile step with the amount negated.
ReconcileOne_Negating(rows, txn, acct, already_matched, dbg) ==
    ReconcileTransaction(rows, ConvertToNzt(txn.date), acct, txn.description,
                         txn.description, Quantize4(0 - txn.amount), txn._id, TRUE,
                         txn.description, already_matched, FALSE)

\* The reconcile step of the loop body for one source transaction: the fields
\* read from the row, then the debug path or reconcile_transaction with
\* update_existing=False.
ReconcileOne(rows, txn, acct, already_matched, dbg) ==
    LET payee_name  == txn.description
        notes       == txn.description
        amount      == Quantize4(txn.amount)
        imported_id == txn._id
        cleared     == TRUE
        parsed_date == ConvertToNzt(txn.date)
    IN  IF dbg = imported_id
        THEN DebugReconcile(rows, parsed_date, acct, payee_name, notes, amount,
                            imported_id, cleared, already_matched)
        ELSE ReconcileTransaction(rows, parsed_date, acct, payee_name, notes,
                                  amount, imported_id, cleared, payee_name,
                                  already_matched, FALSE)

\* for _, txn in transactions.iterrows(): the loop from row i on.
\* env.fault = "reconcile" at row env.at is a database error inside the try
\* block; a null date makes strptime raise there as well.
RECURSIVE LoadLoop(_, _, _, _, _, _, _)
LoadLoop(transactions, i, acct, rows, imported_transactions, env, dbg) ==
    IF i > Len(transactions)
    THEN [ status |-> "ok", rows |-> rows, imported |-> imported_transactions ]
    ELSE
      LET txn == transactions[i]
      IN  IF ConvertToNzt(txn.date) = NoDay \/ (env.fault = "reconcile" /\ env.at = i)
          THEN [ status |-> "raised", rows |-> rows,
                 imported |-> imported_transactions ]
          ELSE
            LET r == ReconcileOne(rows, txn, acct, imported_transactions, dbg)
            IN  IF ~r.changed
                THEN LoadLoop(transactions, i + 1, acct, r.rows,
                              imported_transactions, env, dbg)
                ELSE LoadLoop(transactions, i + 1, acct,
                              IF env.ruleset # None THEN RunRules(r.rows, r.id)
                              ELSE r.rows,
                              Append(imported_transactions, r.id), env, dbg)

\* A load that commits after every transaction of the batch.
LoadTransactionsIntoActual_CommitEach(transactions, mapping_entry, rows, dur, now, env, dbg) ==
    IF Len(transactions) = 0
    THEN [ status |-> "none", count |-> 0, rows |-> rows, durable |-> dur,
           entry |-> mapping_entry, commit_calls |-> 0 ]
    ELSE IF env.fault = "setup"
    THEN [ status |-> "raised", count |-> 0, rows |-> rows, durable |-> dur,
           entry |-> mapping_entry, commit_calls |-> 0 ]
    ELSE
      LET l == LoadLoop(transactions, 1, mapping_entry.actual_account_id, rows,
                        <<>>, env, dbg)
          stamped == [mapping_entry EXCEPT !.actual_synced_datetime = now]
      IN  IF l.status = "raised"
          THEN [ status |-> "raised", count |-> 0, rows |-> l.rows,
                 durable |-> Len(l.rows), entry |-> mapping_entry,
                 commit_calls |-> Len(l.rows) - Len(rows) ]
          ELSE IF env.fault = "commit"
          THEN [ status |-> "raised", count |-> 0, rows |-> l.rows,
                 durable |-> dur, entry |-> stamped, commit_calls |-> 1 ]
          ELSE [ status |-> "ok", count |-> Len(l.imported), rows |-> l.rows,
                 durable |-> Len(l.rows), entry |-> stamped,
                 commit_calls |-> Len(transactions) ]

\* load_transactions_into_actual(transactions, mapping_entry, actual, debug_mode)
\* on the session rows, with `dur` of them durable, at time `now`.
\* status: "none" (empty input: returns None), "ok", "raised".
LoadTransactionsIntoActual(transactions, mapping_entry, rows, dur, now, env, dbg) ==
    IF Len(transactions) = 0
    THEN [ status |-> "none", count |-> 0, rows |-> rows, durable |-> dur,
           entry |-> mapping_entry, commit_calls |-> 0 ]
    ELSE IF env.fault = "setup"
    THEN \* get_cached_names or get_ruleset raised
         [ status |-> "raised", count |-> 0, rows |-> rows, durable |-> dur,
           entry |-> mapping_entry, commit_calls |-> 0 ]
    ELSE
      LET l == LoadLoop(transactions, 1, mapping_entry.actual_account_id, rows,
                        <<>>, env, dbg)
          stamped == [mapping_entry EXCEPT !.actual_synced_datetime = now]
      IN  IF l.status = "raised"
          THEN [ status |-> "raised", count |-> 0, rows |-> l.rows,
                 durable |-> dur, entry |-> mapping_entry, commit_calls |-> 0 ]
          ELSE IF env.fault = "commit"
          THEN \* the watermark was written before actual.commit() raised
               [ status |-> "raised", count |-> 0, rows |-> l.rows,
                 durable |-> dur, entry |-> stamped, commit_calls |-> 1 ]
          ELSE [ status |-> "ok", count |-> Len(l.imported), rows |-> l.rows,
                 durable |-> Len(l.rows), entry |-> stamped, commit_calls |-> 1 ]

(***************************************************************************)
(* 3. Account mapping                                                      *)
(***************************************************************************)

\* One AccountMapping record; a missing identifier is None, and a watermark
\* never written is NoWatermark.
Entry(type, ab_id, ab_skip, yn_id, yn_skip) ==
    [ account_type           |-> type,
      actual_budget_id       |-> IF ab_id = None THEN None ELSE "budgetB",
      actual_account_id      |-> ab_id,
      actual_do_not_map      |-> ab_skip,
      actual_synced_datetime |-> NoWatermark,
      ynab_budget_id         |-> IF yn_id = None THEN None ELSE "budgetA",
      ynab_account_id        |-> yn_id,
      ynab_do_not_map        |-> yn_skip,
      ynab_synced_datetime   |-> NoWatermark,
      akahu_balance          |-> NoBalance ]

\* One On-Budget account mapped to both destinations.
PlainMapping ==
    [ a \in {"acc1"} |-> Entry("On Budget", "ab1", FALSE, "yn1", FALSE) ]

(***************************************************************************)
(* 4. Scenarios: load_transactions_into_actual called on arbitrary batches *)
(***************************************************************************)

\* Source transactions: id, UTC date (hours), amount (E5), description.
\* 1234500 is 12.345 dollars; dates 12 and 204 fall on local days 1 and 9.
SrcTxns ==
    [ _id : {"t1", "t2"}, date : {12, 204, BadDate},
      amount : {1234500, -2500000}, description : {"A", "B"} ]

\* The two source transactions of a scenario: a fixed first one, and any second
\* one (same or other id, amount, description; a near, far or missing date).
Universes ==
    { u \in SrcTxns \X SrcTxns :
        u[1] = [_id |-> "t1", date |-> 12, amount |-> 1234500, description |-> "A"] }

\* The non-empty batches over a universe, to MaxBatch rows.
Batches(u) == UNION { [1..n -> {u[1], u[2]}] : n \in 1..MaxBatch }

\* What the environment does during one call: which step fails, if any, and
\* whether the budget has rules.
Envs(n) ==
    { [fault |-> "none", at |-> 0, ruleset |-> rs] : rs \in {None, "rules"} }
    \cup { [fault |-> f, at |-> 0, ruleset |-> "rules"] : f \in {"setup", "commit"} }
    \cup { [fault |-> "reconcile", at |-> k, ruleset |-> "rules"] : k \in 1..n }

NoCall ==
    [ op |-> "none", account |-> None, txns |-> <<>>, status |-> "none",
      count |-> 0, pre_rows |-> <<>>, pre_entry |-> Entry(None, None, FALSE, None, FALSE),
      repeat |-> FALSE ]

\* A source without balances or transactions.
NoSource == [ a \in {"acc1"} |-> [balance |-> NoBalance, txns |-> <<>>] ]

\* No pass is running.
IdleRun ==
    [ dest |-> None, pc |-> "idle", order |-> <<>>, idx |-> 0, successful |-> {},
      uploaded |-> 0, fatal |-> FALSE, stamp_calls |-> 0, file0 |-> PlainMapping,
      touched |-> {}, fetches |-> <<>>, after_abort |-> FALSE, source0 |-> NoSource,
      commits |-> 0, round_trips |-> 0, force_refresh |-> FALSE, refreshes |-> 0 ]

QuietPass ==
    /\ ynab = <<>>
    /\ posts = <<>>
    /\ akahu = NoSource
    /\ run = IdleRun

IdleFeed ==
    /\ feed = <<>>
    /\ next_cursor = None
    /\ query_cursor = None
    /\ res = <<>>
    /\ requests = <<>>
    /\ pg = "idle"

InitActual ==
    /\ IdleFeed
    /\ db = <<>>
    /\ durable = 0
    /\ clock = 1
    /\ universe \in Universes
    /\ debug_mode \in {None, "all", "t1"}
    /\ last = NoCall
    /\ mapping_list = PlainMapping
    /\ file = PlainMapping
    /\ QuietPass

\* load_transactions_into_actual is called on a batch of the scenario; the
\* clock advances by one tick per row submitted. Every caller starts from a
\* session without pending rows: a pass that raised is followed by
\* download_budget() before the next one.
CallLoadActual ==
    /\ durable = Len(db)
    /\ \E a \in DOMAIN mapping_list, txns \in Batches(universe) :
         \E env \in Envs(Len(txns)) :
           /\ clock + Len(txns) <= MaxClock
           /\ clock' = clock + Len(txns)
           /\ \E r \in { LoadTransactionsIntoActual(txns, mapping_list[a], db,
                                                     durable, clock, env, debug_mode) } :
                  /\ db' = r.rows
                  /\ durable' = r.durable
                  /\ mapping_list' = [mapping_list EXCEPT ![a] = r.entry]
                  /\ last' = [ op |-> "load_actual", account |-> a, txns |-> txns,
                               status |-> r.status, count |-> r.count,
                               pre_rows |-> db, pre_entry |-> mapping_list[a],
                               repeat |-> /\ last.op = "load_actual"
                                          /\ last.status = "ok"
                                          /\ last.account = a
                                          /\ last.txns = txns,
                               env |-> env, commit_calls |-> r.commit_calls,
                               pre_durable |-> durable ]
    /\ UNCHANGED <<universe, debug_mode, file, pageVars, passVars>>

\* actual.download_budget(): the session is rebuilt from the server's copy, so
\* rows no commit made durable are gone.
DownloadBudget ==
    /\ durable < Len(db)
    /\ db' = SubSeq(db, 1, durable)
    /\ last' = [NoCall EXCEPT !.op = "download_budget"]
    /\ UNCHANGED <<durable, clock, universe, debug_mode, mapVars, pageVars, passVars>>

\* The user deletes a durable row in the budget application (tombstone = 1).
UserDeletes ==
    /\ \E i \in 1..durable :
         /\ ~db[i].tombstone
         /\ db' = [db EXCEPT ![i].tombstone = TRUE]
    /\ last' = [NoCall EXCEPT !.op = "delete"]
    /\ UNCHANGED <<durable, clock, universe, debug_mode, mapVars, pageVars, passVars>>

NextActual == CallLoadActual \/ DownloadBudget \/ UserDeletes

SpecActual == InitActual /\ [][NextActual]_vars

(***************************************************************************)
(* Properties of load_transactions_into_actual                             *)
(***************************************************************************)

\* The last step was a call of load_transactions_into_actual that returned.
LoadedOk == last.op = "load_actual" /\ last.status = "ok"

\* The destination-B account the last call wrote to.
LastAcct == mapping_list[last.account].actual_account_id

\* The live rows of an account that carry an import id.
RowsWithId(rows, acct, fid) ==
    { i \in LiveRows(rows, acct) : rows[i].financial_id = fid }

\* The rows the last call created.
CreatedRows == (Len(last.pre_rows) + 1)..Len(db)

\* The amount of a source transaction in cents, to the nearest cent.
IsNearestCent(cents, e5) ==
    /\ 2 * (cents * 1000 - e5) <= 1000
    /\ 2 * (e5 - cents * 1000) <= 1000

\* C3 (as claimed): the second of two identical successful calls leaves exactly
\* one live row per import id of the batch, the row the first call left, and
\* creates nothing and returns 0.
C3_SecondCallLeavesExactlyOne ==
    (LoadedOk /\ last.repeat) =>
        /\ last.count = 0
        /\ Len(db) = Len(last.pre_rows)
        /\ \A k \in 1..Len(last.txns) :
             LET ids == RowsWithId(db, LastAcct, last.txns[k]._id)
             IN  /\ Cardinality(ids) = 1
                 /\ \A i \in ids :
                      /\ i \in RowsWithId(last.pre_rows, LastAcct, last.txns[k]._id)
                      /\ db[i].amount = last.pre_rows[i].amount
                      /\ db[i].sort_order = last.pre_rows[i].sort_order

MatchedWithOtherFields(k) ==
    \E i \in RowsWithId(last.pre_rows, LastAcct, last.txns[k]._id) :
        \/ last.pre_rows[i].amount # DecimalToCents(Quantize4(last.txns[k].amount))
        \/ last.pre_rows[i].imported_description # last.txns[k].description

ReimportChanged ==
    /\ LoadedOk
    /\ Len(last.txns) = 1
    /\ \E i \in RowsWithId(last.pre_rows, LastAcct, last.txns[1]._id) :
         /\ last.pre_rows[i].amount # DecimalToCents(Quantize4(last.txns[1].amount))
         /\ last.pre_rows[i].imported_description # last.txns[1].description

PageOf(i, n, c) == [ items |-> [j \in 1..n |-> 10 * i + j], cursor |-> c ]

\* The feeds of len pages, each with up to MaxItems items and any cursor
\* member.
Feeds(len) ==
    { [i \in 1..len |-> PageOf(i, ns[i], cs[i])] :
        ns \in [1..len -> 0..MaxItems], cs \in [1..len -> CursorForms] }

QuietActual ==
    /\ db = <<>>
    /\ durable = 0
    /\ clock = 1
    /\ universe = <<>>
    /\ debug_mode = None
    /\ last = NoCall
    /\ mapping_list = PlainMapping
    /\ file = PlainMapping

\* get_all_akahu is entered: query_params = {start}, nothing accumulated yet
\* (res is None only until the first response, and the loop body always runs
\* once, so the value returned is never None).
InitFeed ==
    /\ QuietPass
    /\ \E len \in 1..MaxPages : feed \in Feeds(len)
    /\ next_cursor = FirstTime
    /\ query_cursor = None
    /\ res = <<>>
    /\ requests = <<>>
    /\ pg = "loop"
    /\ QuietActual

NextFeed == FetchPage \/ FetchFails \/ FetchReturn

SpecFeed == InitFeed /\ [][NextFeed]_vars

\* All items of the first n pages of a feed, in page order.
RECURSIVE ItemsOfPages(_, _)
ItemsOfPages(f, n) ==
    IF n = 0 THEN <<>> ELSE ItemsOfPages(f, n - 1) \o f[n].items

\* A page hands out a next cursor.
CarriesNext(page) ==
    page.cursor.present /\ page.cursor.has_next /\ page.cursor.next # None

\* The feed serves exactly its Len(feed) pages: every page but the last
\* carries a next cursor, the last carries none, and no cursor is handed out
\* twice.
ServesItsPages ==
    /\ \A i \in 1..(Len(feed) - 1) : CarriesNext(feed[i])
    /\ ~CarriesNext(feed[Len(feed)])
    /\ \A i, j \in 1..(Len(feed) - 1) :
         i # j => feed[i].cursor.next # feed[j].cursor.next

\* The cursor parameters of the requests that walk such a feed: none on the
\* first, then the cursor each page handed out.
WalkCursors == [ i \in 1..Len(feed) |-> IF i = 1 THEN None ELSE feed[i - 1].cursor.next ]

\* C10 (as claimed): on a feed that serves N pages the reader returns after
\* exactly N requests, each carrying the cursor of the page before, with the
\* items of the N pages in order.
C10_WalksAllPages ==
    (pg = "done" /\ ServesItsPages) =>
        /\ Len(requests) = Len(feed)
        /\ requests = WalkCursors
        /\ res = ItemsOfPages(feed, Len(feed))

\* Every page but the last holds at least one item, and no cursor is the
\* literal "first time".
WalkablePages ==
    /\ \A i \in 1..(Len(feed) - 1) : Len(feed[i].items) > 0
    /\ \A i \in 1..(Len(feed) - 1) : feed[i].cursor.next # FirstTime

\* C10 (amended): the same, for a feed whose pages before the last are not
\* empty and whose cursors differ from the literal "first time".
C10_WalksAllNonEmptyPages ==
    (pg = "done" /\ ServesItsPages /\ WalkablePages) =>
        /\ Len(requests) = Len(feed)
        /\ requests = WalkCursors
        /\ res = ItemsOfPages(feed, Len(feed))

C10_Witness ==
    /\ pg = "done"
    /\ ServesItsPages
    /\ WalkablePages
    /\ Len(feed) = 3
    /\ Len(requests) = 3
    /\ Len(res) >= 2

(***************************************************************************)
(* 6. Destination A (YNAB) write path                                      *)
(***************************************************************************)

\* pd.isna(row["merchant"]): the cell is None or NaN.
IsNa(merchant) == merchant.kind = "nan"

\* The values `"name" in row["merchant"]` raises TypeError on: numbers.
RaisesOnLookup(merchant) == merchant.kind = "number"

\* get_payee_name: the merchant's name when the row has a merchant that is
\* not NaN and holds a name that is not None, else the description; a
\* TypeError or ValueError on the way gives "Unknown". A merchant cell is a
\* record whose kind says what the source sent: "dict" (with or without a
\* name key), "nan", "number" or "str" (a string without "name" in it).
GetPayeeName(row) ==
    IF "merchant" \in DOMAIN row /\ ~IsNa(row.merchant)
    THEN IF RaisesOnLookup(row.merchant)
         THEN "Unknown"
         ELSE IF row.merchant.kind = "dict" /\ "name" \in DOMAIN row.merchant
         THEN IF row.merchant.name # None
              THEN row.merchant.name
              ELSE row.description
         ELSE row.description
    ELSE row.description

\* One row of clean_txn_for_ynab: amount str(int(x * 1000)) in milliunits,
\* the local calendar day, import_id = id.
CleanOne(txn, ynab_account_id) ==
    [ id         |-> txn._id,
      date       |-> ConvertToNzt(txn.date),
      amount     |-> TruncDiv(txn.amount, 100),
      memo       |-> txn.description,
      payee_name |-> GetPayeeName(txn),
      cleared    |-> "cleared",
      import_id  |-> txn._id,
      flag_color |-> "red",
      account_id |-> ynab_account_id ]

CleanTxnForYnab(akahu_txn, ynab_account_id) ==
    [ k \in 1..Len(akahu_txn) |-> CleanOne(akahu_txn[k], ynab_account_id) ]

\* The transaction the service stores for a submitted one.
YnabRow(t) ==
    [ account_id |-> t.account_id, import_id |-> t.import_id,
      amount |-> t.amount, date |-> t.date, payee_name |-> t.payee_name ]

\* The service's handling of POST .../transactions {transactions: [...]}: a
\* transaction whose import_id the account already holds is reported under
\* duplicate_import_ids, any other is created.
RECURSIVE YnabImport(_, _, _, _, _)
YnabImport(rows, batch, k, created, duplicate_import_ids) ==
    IF k > Len(batch)
    THEN [ rows |-> rows, transactions |-> created,
           duplicate_import_ids |-> duplicate_import_ids ]
    ELSE IF \E i \in 1..Len(rows) : /\ rows[i].account_id = batch[k].account_id
                                    /\ rows[i].import_id = batch[k].import_id
    THEN YnabImport(rows, batch, k + 1, created,
                    Append(duplicate_import_ids, batch[k].import_id))
    ELSE YnabImport(Append(rows, YnabRow(batch[k])), batch, k + 1,
                    Append(created, YnabRow(batch[k])), duplicate_import_ids)

\* The import ids of a POST body.
BodyOf(batch) == [ k \in 1..Len(batch) |-> batch[k].import_id ]

\* A variant that counts every submitted transaction as loaded.
LoadTransactionsIntoYnab_CountingAll(akahu_txn, rows, fails) ==
    IF fails
    THEN [ status |-> "raised", count |-> 0, rows |-> rows,
           posts |-> <<BodyOf(akahu_txn)>>, duplicates |-> <<>> ]
    ELSE LET r == YnabImport(rows, akahu_txn, 1, <<>>, <<>>)
         IN  [ status |-> "ok", count |-> Len(akahu_txn), rows |-> r.rows,
               posts |-> <<BodyOf(akahu_txn)>>, duplicates |-> r.duplicate_import_ids ]

\* load_transactions_into_ynab on the service's rows: one POST; a transport or
\* non-2xx failure raises RuntimeError; else the length of data.transactions.
LoadTransactionsIntoYnab(akahu_txn, rows, fails) ==
    IF fails
    THEN [ status |-> "raised", count |-> 0, rows |-> rows,
           posts |-> <<BodyOf(akahu_txn)>>, duplicates |-> <<>> ]
    ELSE LET r == YnabImport(rows, akahu_txn, 1, <<>>, <<>>)
         IN  [ status |-> "ok", count |-> Len(r.transactions), rows |-> r.rows,
               posts |-> <<BodyOf(akahu_txn)>>, duplicates |-> r.duplicate_import_ids ]

QuietFeedAndActual ==
    /\ IdleFeed
    /\ db = <<>>
    /\ durable = 0
    /\ clock = 1
    /\ debug_mode = None
    /\ last = NoCall

InitYnab ==
    /\ QuietFeedAndActual
    /\ universe \in Universes
    /\ mapping_list = PlainMapping
    /\ file = PlainMapping
    /\ QuietPass

\* load_transactions_into_ynab is called on the cleaned rows of a batch of the
\* scenario.
CallLoadYnab ==
    /\ \E a \in DOMAIN mapping_list, txns \in Batches(universe), fails \in BOOLEAN :
         /\ clock + Len(txns) <= MaxClock
         /\ clock' = clock + Len(txns)
         /\ LET cleaned_txn == CleanTxnForYnab(txns, mapping_list[a].ynab_account_id)
                r == LoadTransactionsIntoYnab(cleaned_txn, ynab, fails)
            IN  /\ ynab' = r.rows
                /\ posts' = r.posts
                /\ last' = [ op |-> "load_ynab", account |-> a, txns |-> txns,
                             status |-> r.status, count |-> r.count,
                             pre_rows |-> ynab, duplicates |-> r.duplicates ]
    /\ UNCHANGED <<universe, debug_mode, mapVars, abVars, pageVars, akahu, run>>

NextYnab == CallLoadYnab

SpecYnab == InitYnab /\ [][NextYnab]_vars

\* The rows of destination A the last call created.
CreatedYnab == (Len(last.pre_rows) + 1)..Len(ynab)

\* An account of destination A holds an import id.
YnabHolds(rows, account_id, import_id) ==
    \E i \in 1..Len(rows) :
        rows[i].account_id = account_id /\ rows[i].import_id = import_id

RECURSIVE SumAmounts(_, _, _)
SumAmounts(rows, n, keep) ==
    IF n = 0 THEN 0
    ELSE SumAmounts(rows, n - 1, keep) + (IF n \in keep THEN rows[n].amount ELSE 0)

\* account_fetcher.get_actual_balance: the account's balance in cents.
GetActualBalance(rows, acct) == SumAmounts(rows, Len(rows), LiveRows(rows, acct))

\* account_fetcher.get_ynab_balance: the account's balance in milliunits.
GetYnabBalance(rows, account_id) ==
    SumAmounts(rows, Len(rows), { i \in 1..Len(rows) : rows[i].account_id = account_id })

\* account_fetcher.get_akahu_balance: the source balance in dollars (E4), or
\* None.
GetAkahuBalance(src, a) == src[a].balance

\* int(decimal.Decimal(str(akahu_balance_dollars)) * 100)
AkahuBalanceCents(e4) == TruncDiv(e4, 100)

\* int(akahu_balance * 1000)
AkahuBalanceMilliunits(e4) == TruncDiv(e4, 10)

\* datetime.utcnow().date()
UtcDay(now) == now \div 24

\* The adjustment taken as destination minus source.
AdjustmentCents_Reversed(akahu_balance_cents, actual_balance_cents) ==
    actual_balance_cents - akahu_balance_cents

\* The adjustment of handle_tracking_account_actual, in cents.
AdjustmentCents(akahu_balance_cents, actual_balance_cents) ==
    akahu_balance_cents - actual_balance_cents

\* handle_tracking_account_actual(mapping_entry, actual) on the session rows.
\* fault: "none", "balance" (get_actual_balance raises), "commit".
HandleTrackingAccountActual(mapping_entry, rows, dur, now, fault) ==
    IF fault = "balance" \/ mapping_entry.akahu_balance = NoBalance
    THEN [ status |-> "raised", count |-> 0, rows |-> rows, durable |-> dur,
           commit_calls |-> 0 ]
    ELSE
      LET actual_account_id    == mapping_entry.actual_account_id
          actual_balance_cents == GetActualBalance(rows, actual_account_id)
          akahu_balance_cents  == AkahuBalanceCents(mapping_entry.akahu_balance)
          adjustment_e4        == AdjustmentCents(akahu_balance_cents,
                                                  actual_balance_cents) * 100
          c == CreateTransaction(rows, UtcDay(now), actual_account_id,
                                 "Balance Adjustment", "Adjusted", adjustment_e4,
                                 "adjustment", TRUE, "Balance Adjustment")
      IN  IF akahu_balance_cents # actual_balance_cents
          THEN IF fault = "commit"
               THEN [ status |-> "raised", count |-> 0, rows |-> c.rows,
                      durable |-> dur, commit_calls |-> 1 ]
               ELSE [ status |-> "ok", count |-> 1, rows |-> c.rows,
                      durable |-> Len(c.rows), commit_calls |-> 1 ]
          ELSE [ status |-> "ok", count |-> 0, rows |-> rows, durable |-> dur,
                 commit_calls |-> 0 ]

\* The difference taken as destination minus source.
BalanceDifference_Reversed(akahu_balance, ynab_balance) == ynab_balance - akahu_balance

\* balance_difference of create_adjustment_txn_ynab, in milliunits.
BalanceDifference(akahu_balance, ynab_balance) == akahu_balance - ynab_balance

\* create_adjustment_txn_ynab: nothing when the difference is zero, else one
\* POST of a single transaction; a request failure is raised again.
CreateAdjustmentTxnYnab(ynab_account_id, akahu_balance, ynab_balance, rows, now, fails) ==
    LET balance_difference == BalanceDifference(akahu_balance, ynab_balance)
        transaction == [ account_id |-> ynab_account_id, import_id |-> None,
                         amount |-> balance_difference, date |-> UtcDay(now),
                         payee_name |-> "Balance Adjustment" ]
    IN  IF balance_difference = 0
        THEN [ status |-> "ok", rows |-> rows, posts |-> <<>> ]
        ELSE IF fails
        THEN [ status |-> "raised", rows |-> rows, posts |-> << <<None>> >> ]
        ELSE [ status |-> "ok", rows |-> Append(rows, transaction),
               posts |-> << <<None>> >> ]

\* The Tracking branch of sync_to_ynab for one account, given the balance
\* get_akahu_balance returns. fault: "none", "balance" (get_ynab_balance
\* raises), "post".
TrackingBranchYnab(mapping_entry, akahu_balance, rows, now, fault) ==
    LET entry == [mapping_entry EXCEPT !.akahu_balance = akahu_balance]
        ynab_balance_milliunits  == GetYnabBalance(rows, mapping_entry.ynab_account_id)
        akahu_balance_milliunits == AkahuBalanceMilliunits(akahu_balance)
        c == CreateAdjustmentTxnYnab(mapping_entry.ynab_account_id,
                                     akahu_balance_milliunits,
                                     ynab_balance_milliunits, rows, now,
                                     fault = "post")
    IN  IF fault = "balance" \/ akahu_balance = NoBalance
        THEN [ status |-> "raised", count |-> 0, rows |-> rows, posts |-> <<>>,
               entry |-> entry ]
        ELSE IF ynab_balance_milliunits # akahu_balance_milliunits
        THEN [ status |-> c.status, count |-> IF c.status = "ok" THEN 1 ELSE 0,
               rows |-> c.rows, posts |-> c.posts, entry |-> entry ]
        ELSE [ status |-> "ok", count |-> 0, rows |-> rows, posts |-> <<>>,
               entry |-> entry ]

\* One Tracking account mapped to both destinations.
TrackingMapping ==
    [ a \in {"acc1"} |-> Entry("Tracking", "ab1", FALSE, "yn1", FALSE) ]

\* Source balances in E4: 100.5075, -25.00 and 0 dollars, and no balance.
TrackBalances == {1005075, -250000, 0, NoBalance}

InitTrack ==
    /\ QuietFeedAndActual
    /\ universe = <<>>
    /\ mapping_list = TrackingMapping
    /\ file = TrackingMapping
    /\ ynab = <<>>
    /\ posts = <<>>
    /\ akahu \in [ {"acc1"} -> [balance : TrackBalances, txns : {<<>>}] ]
    /\ run = IdleRun

\* The previous step was a successful adjustment by the same handler on the
\* same account.
JustAdjusted(op, a) ==
    last.op = op /\ last.account = a /\ last.status = "ok" /\ last.count = 1

\* The Tracking branch of sync_to_ab for one account: the balance is fetched,
\* stored in the mapping entry and handed to handle_tracking_account_actual;
\* without a balance the account is skipped.
CallTrackingActual ==
    /\ durable = Len(db)
    /\ clock < MaxClock
    /\ clock' = clock + 1
    /\ \E a \in DOMAIN mapping_list, fault \in {"none", "balance", "commit"} :
         LET akahu_balance == GetAkahuBalance(akahu, a)
             entry == [mapping_list[a] EXCEPT !.akahu_balance = akahu_balance]
             r == HandleTrackingAccountActual(entry, db, durable, clock, fault)
         IN  IF akahu_balance = NoBalance
             THEN /\ last' = [ op |-> "track_ab", account |-> a, status |-> "skipped",
                               count |-> 0, pre_rows |-> db, s |-> 0, pre_d |-> 0,
                               repeat |-> FALSE ]
                  /\ UNCHANGED <<db, durable, mapping_list>>
             ELSE /\ db' = r.rows
                  /\ durable' = r.durable
                  /\ mapping_list' = [mapping_list EXCEPT ![a] = entry]
                  /\ last' = [ op |-> "track_ab", account |-> a, status |-> r.status,
                               count |-> r.count, pre_rows |-> db,
                               s |-> AkahuBalanceCents(akahu_balance),
                               pre_d |-> GetActualBalance(db, entry.actual_account_id),
                               repeat |-> JustAdjusted("track_ab", a) ]
    /\ UNCHANGED <<universe, debug_mode, file, pageVars, passVars>>

\* The Tracking branch of sync_to_ynab for one account.
CallTrackingYnab ==
    /\ clock < MaxClock
    /\ clock' = clock + 1
    /\ \E a \in DOMAIN mapping_list, fault \in {"none", "balance", "post"} :
         LET akahu_balance == GetAkahuBalance(akahu, a)
             r == TrackingBranchYnab(mapping_list[a], akahu_balance, ynab, clock, fault)
         IN  /\ ynab' = r.rows
             /\ posts' = r.posts
             /\ mapping_list' = [mapping_list EXCEPT ![a] = r.entry]
             /\ last' = [ op |-> "track_ynab", account |-> a, status |-> r.status,
                          count |-> r.count, pre_rows |-> ynab,
                          s |-> IF akahu_balance = NoBalance THEN 0
                                ELSE AkahuBalanceMilliunits(akahu_balance),
                          pre_d |-> GetYnabBalance(ynab, mapping_list[a].ynab_account_id),
                          repeat |-> JustAdjusted("track_ynab", a) ]
    /\ UNCHANGED <<universe, debug_mode, file, abVars, pageVars, akahu, run>>

\* The balance of a source account changes.
SourceBalanceChanges ==
    /\ clock < MaxClock
    /\ clock' = clock + 1
    /\ \E a \in DOMAIN akahu, b \in TrackBalances :
         /\ b # akahu[a].balance
         /\ akahu' = [akahu EXCEPT ![a].balance = b]
    /\ last' = [NoCall EXCEPT !.op = "source"]
    /\ UNCHANGED <<universe, debug_mode, mapVars, abVars, pageVars, ynab, posts, run>>

NextTrack == CallTrackingActual \/ CallTrackingYnab \/ SourceBalanceChanges \/ DownloadBudget

SpecTrack == InitTrack /\ [][NextTrack]_vars

\* The last step was a Tracking handler that returned.
TrackedOk == last.op \in {"track_ab", "track_ynab"} /\ last.status = "ok"

\* The rows of the destination the last handler wrote to, and its balance.
TrackedRows == IF last.op = "track_ab" THEN db ELSE ynab

TrackedBalance ==
    IF last.op = "track_ab"
    THEN GetActualBalance(db, mapping_list[last.account].actual_account_id)
    ELSE GetYnabBalance(ynab, mapping_list[last.account].ynab_account_id)

\* C8: a Tracking handler that finds the destination balance D different from
\* the source balance S (both in the destination's minor unit) creates exactly
\* one transaction, of amount S - D, after which the destination balance is S,
\* and contributes 1; when D = S it creates nothing and contributes 0.
C8_OneAdjustmentToParity ==
    TrackedOk =>
        /\ SubSeq(TrackedRows, 1, Len(last.pre_rows)) = last.pre_rows
        /\ last.pre_d # last.s =>
             /\ Len(TrackedRows) = Len(last.pre_rows) + 1
             /\ TrackedRows[Len(TrackedRows)].amount = last.s - last.pre_d
             /\ TrackedBalance = last.s
             /\ last.count = 1
        /\ last.pre_d = last.s =>
             /\ TrackedRows = last.pre_rows
             /\ last.count = 0

C8_Witness ==
    /\ TrackedOk
    /\ last.op = "track_ynab"
    /\ last.count = 1
    /\ last.s < 0
    /\ \E i \in 1..Len(db) : db[i].payee = "Balance Adjustment" /\ db[i].amount > 0

\* C9: a Tracking handler run again right after its own successful adjustment,
\* the source balance unchanged, creates no transaction and returns 0.
C9_RerunIsNoOp ==
    (TrackedOk /\ last.repeat) =>
        /\ TrackedRows = last.pre_rows
        /\ last.count = 0
        /\ last.pre_d = last.s

C9_Witness ==
    /\ TrackedOk
    /\ last.repeat
    /\ last.op = "track_ab"
    /\ Len(db) = 1
    /\ last.s # 0

(***************************************************************************)
(* 8. The pass orchestrators: sync_to_ab and sync_to_ynab                  *)
(***************************************************************************)

\* The accounts of the mapping, in the order mapping_list.items() yields them.
AccountOrder == <<"acc1", "acc2">>

\* The ways one account may be configured: On Budget, Tracking, excluded from
\* both destinations, without destination ids, of a type the engine does not
\* know, excluded from one destination, or with one id of each destination
\* missing.
Profiles(ab_id, yn_id) ==
    { Entry("On Budget", ab_id, FALSE, yn_id, FALSE),
      Entry("Tracking", ab_id, FALSE, yn_id, FALSE),
      Entry("On Budget", ab_id, TRUE, yn_id, TRUE),
      Entry("On Budget", None, FALSE, None, FALSE),
      Entry("Savings", ab_id, FALSE, yn_id, FALSE),
      Entry("On Budget", ab_id, TRUE, yn_id, FALSE),
      Entry("Tracking", ab_id, FALSE, yn_id, TRUE),
      [Entry("On Budget", ab_id, FALSE, yn_id, FALSE) EXCEPT
          !.actual_account_id = None, !.ynab_budget_id = None] }

Mappings ==
    { [ a \in {"acc1", "acc2"} |-> IF a = "acc1" THEN p1 ELSE p2 ] :
        p1 \in Profiles("ab1", "yn1"), p2 \in Profiles("ab2", "yn2") }

\* What the source holds for an account: a balance or none, and no
\* transaction or one.
Sources ==
    [ {"acc1", "acc2"} ->
        [ balance : {1005075, NoBalance},
          txns : { <<>>, <<[_id |-> "t1", date |-> 12, amount |-> 1234500,
                            description |-> "A"]>> } ] ]

\* get_account_priority: 0 for On Budget, 1 for Tracking and for any other
\* type.
GetAccountPriority(account_entry) ==
    IF account_entry.account_type = "On Budget" THEN 0
    ELSE IF account_entry.account_type = "Tracking" THEN 1
    ELSE 1

\* The accounts in the order the mapping iterates them, unsorted.
SortedAccounts_Unsorted(m) == AccountOrder

\* sorted(mapping_list.items(), key=get_account_priority): a stable sort.
SortedAccounts(m) ==
    LET First(a)  == GetAccountPriority(m[a]) = 0
        Second(a) == GetAccountPriority(m[a]) = 1
    IN  SelectSeq(AccountOrder, First) \o SelectSeq(AccountOrder, Second)

\* A stamping that sets the watermarks of both destinations.
UpdateMappingTimestamps_BothDestinations(mappings, successful_ab_syncs, successful_ynab_syncs, current_time) ==
    [ a \in DOMAIN mappings |->
        IF a \in successful_ab_syncs \cup successful_ynab_syncs
        THEN [mappings[a] EXCEPT !.actual_synced_datetime = current_time,
                                 !.ynab_synced_datetime = current_time]
        ELSE mappings[a] ]

\* update_mapping_timestamps on the mapping loaded from the file: the accounts
\* named and not excluded are stamped with the current time.
UpdateMappingTimestamps(mappings, successful_ab_syncs, successful_ynab_syncs, current_time) ==
    [ a \in DOMAIN mappings |->
        LET e == IF a \in successful_ab_syncs /\ ~mappings[a].actual_do_not_map
                 THEN [mappings[a] EXCEPT !.actual_synced_datetime = current_time]
                 ELSE mappings[a]
        IN  IF a \in successful_ynab_syncs /\ ~e.ynab_do_not_map
            THEN [e EXCEPT !.ynab_synced_datetime = current_time]
            ELSE e ]

\* get_all_akahu run to its return on a feed whose requests all succeed.
RECURSIVE FetchLoop(_, _, _, _, _)
FetchLoop(f, nc, qc, acc, fuel) ==
    IF nc = None \/ fuel = 0 THEN acc
    ELSE LET q    == NextQueryCursor(nc, qc)
             page == ServePage(f, q)
         IN  FetchLoop(f, IF HasMorePages(page) THEN page.cursor.next ELSE None,
                       q, Accumulate(acc, page.items), fuel - 1)

GetAllAkahu(f) == FetchLoop(f, FirstTime, None, <<>>, MaxRequests)

\* Seven days, in hours.
Week == 168

\* mapping_entry.get(key, "2025-05-05T00:00:00Z"): the stored watermark, or
\* the epoch for an entry that holds none.
LastReconciledAt(watermark) == IF watermark = NoWatermark THEN Epoch ELSE watermark

\* A fetch window that starts at the watermark itself.
QueryStart_NoLookBack(last_reconciled_at) ==
    IF last_reconciled_at # NoWatermark THEN last_reconciled_at ELSE Epoch

\* query_params["start"] of get_all_akahu: a week before the watermark, or
\* the fixed epoch when none is given.
QueryStart(last_reconciled_at) ==
    IF last_reconciled_at # NoWatermark THEN last_reconciled_at - Week ELSE Epoch

\* The transactions of a sequence dated at or after start.
Since(txns, start) ==
    LET InWindow(t) == t.date >= start
    IN  SelectSeq(txns, InWindow)

\* The feed of an account in a pass: its transactions inside the window, on
\* one page.
FeedOf(a, start) ==
    << [items |-> Since(akahu[a].txns, start), cursor |-> EndPage.cursor] >>

\* An account excluded from a destination is never skipped.
NotMapped_Never(do_not_map) == FALSE

\* mapping_entry.get("actual_do_not_map") / mapping_entry.get("ynab_do_not_map")
NotMapped(do_not_map) == do_not_map

\* not (budget_id and account_id)
MissingIds(budget_id, account_id) == budget_id = None \/ account_id = None

\* The account of the running iteration has reached a destination.
Touch(r, a, dest) == [r EXCEPT !.touched = @ \cup {<<a, dest>>}]

\* get_all_akahu was called for an account with a start.
Fetched(r, a, start) == [r EXCEPT !.fetches = Append(@, [account |-> a, start |-> start])]

\* A pass that logs a fatal error and goes on with the next account.
Raise_Swallowed(r) == [r EXCEPT !.idx = @ + 1]

\* An exception leaves the pass.
Raise(r) == [r EXCEPT !.pc = "raised"]

\* continue, or the end of the loop body.
NextAccount(r) == [r EXCEPT !.idx = @ + 1]

\* A pass entered after the previous pass to the same destination raised.
Retrying(r, prev) ==
    [r EXCEPT !.after_abort = (prev.pc = "raised" /\ prev.dest = r.dest)]

\* The state of a pass on entry; FORCE_REFRESH is configuration and stays as
\* it is.
NewRun(dest, m, f) ==
    [ dest |-> dest, pc |-> "loop", order |-> SortedAccounts(m), idx |-> 1,
      successful |-> {}, uploaded |-> 0, fatal |-> FALSE, stamp_calls |-> 0,
      file0 |-> f, touched |-> {}, fetches |-> <<>>, after_abort |-> FALSE,
      source0 |-> akahu, commits |-> 0, round_trips |-> 0,
      force_refresh |-> run.force_refresh, refreshes |-> 0 ]

Init ==
    /\ QuietFeedAndActual
    /\ universe = <<>>
    /\ file \in Mappings
    /\ mapping_list = file
    /\ ynab = <<>>
    /\ posts = <<>>
    /\ akahu \in Sources
    /\ run = [IdleRun EXCEPT !.file0 = file]

\* An entry of sync_to_ab that never refreshes.
ForceRefresh_Never(force_refresh, rows, dur) == [ rows |-> rows, refreshes |-> 0 ]

\* The head of sync_to_ab: with FORCE_REFRESH the open session is closed and
\* dropped and the budget downloaded again and synced, which leaves the rows
\* the server holds; without it the session stays as it is.
ForceRefresh(force_refresh, rows, dur) ==
    IF force_refresh
    THEN [ rows |-> SubSeq(rows, 1, dur), refreshes |-> 1 ]
    ELSE [ rows |-> rows, refreshes |-> 0 ]

\* run_full_sync: the mapping is loaded, the budget downloaded, and sync_to_ab
\* is entered.
StartSyncToAb ==
    /\ run.pc # "loop"
    /\ clock < MaxClock
    /\ clock' = clock + 1
    /\ mapping_list' = file
    /\ LET e == ForceRefresh(run.force_refresh, SubSeq(db, 1, durable), durable)
       IN  /\ db' = e.rows
           /\ run' = [Retrying(NewRun("ab", file, file), run) EXCEPT
                        !.refreshes = e.refreshes]
    /\ UNCHANGED <<durable, universe, debug_mode, last, file, pageVars, ynab, posts, akahu>>

\* sync_to_ynab is entered: after sync_to_ab in the same run_full_sync, on the
\* mapping that pass used, or on a freshly loaded mapping.
StartSyncToYnab ==
    /\ run.pc # "loop"
    /\ IF run.dest = "ab" /\ run.pc = "done"
       THEN /\ run' = NewRun("ynab", mapping_list, file)
            /\ UNCHANGED <<clock, mapping_list>>
       ELSE /\ clock < MaxClock
            /\ clock' = clock + 1
            /\ mapping_list' = file
            /\ run' = Retrying(NewRun("ynab", file, file), run)
    /\ posts' = <<>>
    /\ UNCHANGED <<abVars, universe, debug_mode, last, file, pageVars, ynab, akahu>>

\* One iteration of the account loop of sync_to_ab.
SyncToAbAccount ==
    /\ run.dest = "ab"
    /\ run.pc = "loop"
    /\ run.idx <= Len(run.order)
    /\ LET akahu_account_id == run.order[run.idx]
           mapping_entry    == mapping_list[akahu_account_id]
           account_type     == mapping_entry.account_type
           last_reconciled_at == LastReconciledAt(mapping_entry.actual_synced_datetime)
           start            == QueryStart(last_reconciled_at)
       IN  IF \/ NotMapped(mapping_entry.actual_do_not_map)
              \/ MissingIds(mapping_entry.actual_budget_id, mapping_entry.actual_account_id)
           THEN /\ run' = NextAccount(run)
                /\ UNCHANGED <<abVars, mapping_list>>
           ELSE IF account_type = "Tracking"
           THEN \E fault \in {"none", "balance", "commit"} :
                  LET akahu_balance == GetAkahuBalance(akahu, akahu_account_id)
                      entry == [mapping_entry EXCEPT !.akahu_balance = akahu_balance]
                      r == HandleTrackingAccountActual(entry, db, durable, clock, fault)
                  IN  IF akahu_balance = NoBalance
                      THEN /\ run' = NextAccount(run)
                           /\ UNCHANGED <<abVars, mapping_list>>
                      ELSE /\ db' = r.rows
                           /\ durable' = r.durable
                           /\ mapping_list' = [mapping_list EXCEPT ![akahu_account_id] = entry]
                           /\ run' = IF r.status = "raised"
                                     THEN Raise([Touch(run, akahu_account_id, "ab")
                                                   EXCEPT !.fatal = TRUE,
                                                          !.commits = @ + r.commit_calls])
                                     ELSE NextAccount([Touch(run, akahu_account_id, "ab") EXCEPT
                                            !.uploaded = @ + r.count,
                                            !.commits = @ + r.commit_calls,
                                            !.successful = @ \cup {akahu_account_id}])
           ELSE IF account_type = "On Budget"
           THEN \E fetch_fails \in BOOLEAN, env \in Envs(1) :
                  LET akahu_df == GetAllAkahu(FeedOf(akahu_account_id, start))
                      fetched == Fetched(run, akahu_account_id, start)
                  IN \E r \in { LoadTransactionsIntoActual(akahu_df, mapping_entry, db,
                                                           durable, clock, env, debug_mode) } :
                      IF fetch_fails
                      THEN /\ run' = Raise([fetched EXCEPT !.fatal = TRUE])
                           /\ UNCHANGED <<abVars, mapping_list>>
                      ELSE IF Len(akahu_df) = 0
                      THEN /\ run' = NextAccount(fetched)
                           /\ UNCHANGED <<abVars, mapping_list>>
                      ELSE /\ db' = r.rows
                           /\ durable' = r.durable
                           /\ mapping_list' = [mapping_list EXCEPT ![akahu_account_id] = r.entry]
                           /\ run' = IF r.status = "raised"
                                     THEN Raise([Touch(fetched, akahu_account_id, "ab")
                                                   EXCEPT !.fatal = TRUE,
                                                          !.commits = @ + r.commit_calls])
                                     ELSE NextAccount([Touch(fetched, akahu_account_id, "ab") EXCEPT
                                            !.uploaded = @ + r.count,
                                            !.commits = @ + r.commit_calls,
                                            !.successful = @ \cup {akahu_account_id}])
           ELSE /\ run' = Raise([run EXCEPT !.fatal = TRUE])
                /\ UNCHANGED <<abVars, mapping_list>>
    /\ UNCHANGED <<callVars, file, pageVars, ynab, posts, akahu>>

\* A pass that always makes the end-of-pass round trip.
AnyTransactionsProcessed_Always(transactions_uploaded) == TRUE

\* any_transactions_processed
AnyTransactionsProcessed(transactions_uploaded) == transactions_uploaded > 0

\* The end of sync_to_ab: commit, sync request and fresh download when
\* something was uploaded (any of them may fail: commit_fails), then
\* update_mapping_timestamps when an account succeeded.
FinishSyncToAb ==
    /\ run.dest = "ab"
    /\ run.pc = "loop"
    /\ run.idx = Len(run.order) + 1
    /\ \E commit_fails \in BOOLEAN :
         IF AnyTransactionsProcessed(run.uploaded) /\ commit_fails
         THEN /\ run' = Raise([run EXCEPT !.fatal = TRUE, !.round_trips = @ + 1])
              /\ UNCHANGED <<durable, file>>
         ELSE /\ durable' = IF AnyTransactionsProcessed(run.uploaded) THEN Len(db)
                            ELSE durable
              /\ file' = IF run.successful # {}
                         THEN UpdateMappingTimestamps(file, run.successful, {}, clock)
                         ELSE file
              /\ run' = [run EXCEPT
                           !.pc = "done",
                           !.round_trips = IF AnyTransactionsProcessed(run.uploaded)
                                           THEN @ + 1 ELSE @,
                           !.stamp_calls = IF run.successful # {} THEN @ + 1 ELSE @]
    /\ UNCHANGED <<db, callVars, mapping_list, pageVars, ynab, posts, akahu>>

\* One iteration of the account loop of sync_to_ynab.
SyncToYnabAccount ==
    /\ run.dest = "ynab"
    /\ run.pc = "loop"
    /\ run.idx <= Len(run.order)
    /\ LET akahu_account_id == run.order[run.idx]
           mapping_entry    == mapping_list[akahu_account_id]
           account_type     == mapping_entry.account_type
           last_reconciled_at == LastReconciledAt(mapping_entry.ynab_synced_datetime)
           start            == QueryStart(last_reconciled_at)
       IN  IF \/ NotMapped(mapping_entry.ynab_do_not_map)
              \/ MissingIds(mapping_entry.ynab_budget_id, mapping_entry.ynab_account_id)
           THEN /\ run' = NextAccount(run)
                /\ UNCHANGED <<ynab, posts, mapping_list>>
           ELSE IF account_type = "Tracking"
           THEN \E fault \in {"none", "balance", "post"} :
                  LET r == TrackingBranchYnab(mapping_entry,
                                              GetAkahuBalance(akahu, akahu_account_id),
                                              ynab, clock, fault)
                  IN  /\ ynab' = r.rows
                      /\ posts' = posts \o r.posts
                      /\ mapping_list' = [mapping_list EXCEPT ![akahu_account_id] = r.entry]
                      /\ run' = IF r.status = "raised"
                                THEN Raise([Touch(run, akahu_account_id, "ynab")
                                              EXCEPT !.fatal = TRUE])
                                ELSE NextAccount([Touch(run, akahu_account_id, "ynab") EXCEPT
                                       !.uploaded = @ + r.count,
                                       !.successful = @ \cup {akahu_account_id}])
           ELSE IF account_type = "On Budget"
           THEN \E fetch_fails \in BOOLEAN, post_fails \in BOOLEAN :
                  LET akahu_df == GetAllAkahu(FeedOf(akahu_account_id, start))
                      cleaned_txn == CleanTxnForYnab(akahu_df, mapping_entry.ynab_account_id)
                      r == LoadTransactionsIntoYnab(cleaned_txn, ynab, post_fails)
                      fetched == Fetched(run, akahu_account_id, start)
                  IN  IF fetch_fails
                      THEN /\ run' = Raise([fetched EXCEPT !.fatal = TRUE])
                           /\ UNCHANGED <<ynab, posts, mapping_list>>
                      ELSE IF Len(akahu_df) = 0
                      THEN /\ run' = NextAccount(fetched)
                           /\ UNCHANGED <<ynab, posts, mapping_list>>
                      ELSE /\ ynab' = r.rows
                           /\ posts' = posts \o r.posts
                           /\ run' = IF r.status = "raised"
                                     THEN Raise([Touch(fetched, akahu_account_id, "ynab")
                                                   EXCEPT !.fatal = TRUE])
                                     ELSE NextAccount([Touch(fetched, akahu_account_id, "ynab") EXCEPT
                                            !.uploaded = @ + r.count,
                                            !.successful = @ \cup {akahu_account_id}])
                           /\ UNCHANGED mapping_list
           ELSE /\ run' = NextAccount(run)
                /\ UNCHANGED <<ynab, posts, mapping_list>>
    /\ UNCHANGED <<abVars, callVars, file, pageVars, akahu>>

\* The end of sync_to_ynab: update_mapping_timestamps when an account
\* succeeded.
FinishSyncToYnab ==
    /\ run.dest = "ynab"
    /\ run.pc = "loop"
    /\ run.idx = Len(run.order) + 1
    /\ file' = IF run.successful # {}
               THEN UpdateMappingTimestamps(file, {}, run.successful, clock)
               ELSE file
    /\ run' = [run EXCEPT !.pc = "done",
                          !.stamp_calls = IF run.successful # {} THEN @ + 1 ELSE @]
    /\ UNCHANGED <<abVars, callVars, mapping_list, pageVars, ynab, posts, akahu>>

Next ==
    \/ StartSyncToAb
    \/ StartSyncToYnab
    \/ SyncToAbAccount
    \/ FinishSyncToAb
    \/ SyncToYnabAccount
    \/ FinishSyncToYnab

Spec == Init /\ [][Next]_vars

\* C1: once an account of a pass has raised a fatal error, the pass has not
\* called update_mapping_timestamps and the persisted mapping is what it was
\* when the pass began.
C1_FailedPassLeavesFile ==
    run.fatal => (run.stamp_calls = 0 /\ file = run.file0)

C1_Witness ==
    /\ run.fatal
    /\ run.pc = "raised"
    /\ run.idx = 2
    /\ run.successful # {}
    /\ run.uploaded > 0
    /\ \/ run.dest = "ab" /\ durable > 0
       \/ run.dest = "ynab" /\ Len(ynab) > 0

\* C2 (as claimed): while a pass of sync_to_ab has accounts left, or has not
\* committed, or has failed, no account's destination-B watermark differs from
\* its value at the start of the pass, in memory or in the persisted mapping.
C2_WatermarkOnlyAfterPass ==
    (run.dest = "ab" /\ run.pc \in {"loop", "raised"}) =>
        \A a \in DOMAIN mapping_list :
            /\ mapping_list[a].actual_synced_datetime = run.file0[a].actual_synced_datetime
            /\ file[a].actual_synced_datetime = run.file0[a].actual_synced_datetime

(***************************************************************************)
(* The receive-transaction webhook beside the passes.                      *)
(***************************************************************************)

\* What the destination-B half leaves behind once the load was called with
\* result r: its status, session rows and durable prefix.
HookLoaded(r) ==
    [ status |-> r.status, rows |-> r.rows, durable |-> r.durable, touched |-> TRUE ]

\* The destination-B half of receive_transaction for the event's transaction:
\* unless the account is excluded, the budget is downloaded and the
\* transaction loaded, whatever the account type and whether or not the
\* entry holds destination ids. Without an account id the library finds no
\* account to create the row in and the load raises.
HookActual(mapping_entry, transactions, rows, dur, now, env, dbg) ==
    LET fresh == SubSeq(rows, 1, dur)
    IN  IF NotMapped(mapping_entry.actual_do_not_map)
        THEN [ status |-> "skipped", rows |-> rows, durable |-> dur, touched |-> FALSE ]
        ELSE IF mapping_entry.actual_account_id = None
        THEN [ status |-> "raised", rows |-> fresh, durable |-> dur, touched |-> TRUE ]
        ELSE HookLoaded(LoadTransactionsIntoActual(<<transactions>>, mapping_entry,
                                                   fresh, dur, now, env, dbg))

\* The destination-A half of receive_transaction: unless the account is
\* excluded, a Tracking account with a source balance is adjusted to it and
\* any other account has the transaction posted. fault: "none", "balance"
\* (get_ynab_balance raises), "post". A request built on a missing budget or
\* account id is refused by the destination.
HookYnab(mapping_entry, transactions, akahu_balance, rows, now, fault) ==
    LET missing == MissingIds(mapping_entry.ynab_budget_id, mapping_entry.ynab_account_id)
        t == TrackingBranchYnab(mapping_entry, akahu_balance, rows, now, fault)
        cleaned_txn == CleanTxnForYnab(<<transactions>>, mapping_entry.ynab_account_id)
        r == LoadTransactionsIntoYnab(cleaned_txn, rows, fault = "post")
        refused == [ status |-> "raised", rows |-> rows, posts |-> <<>>, touched |-> TRUE ]
    IN  IF NotMapped(mapping_entry.ynab_do_not_map)
        THEN [ status |-> "skipped", rows |-> rows, posts |-> <<>>, touched |-> FALSE ]
        ELSE IF mapping_entry.account_type = "Tracking"
        THEN IF akahu_balance = NoBalance
             THEN [ status |-> "ok", rows |-> rows, posts |-> <<>>, touched |-> FALSE ]
             ELSE IF missing THEN refused
             ELSE [ status |-> t.status, rows |-> t.rows, posts |-> t.posts,
                    touched |-> TRUE ]
        ELSE IF missing THEN refused
        ELSE [ status |-> r.status, rows |-> r.rows, posts |-> r.posts, touched |-> TRUE ]

\* receive_transaction for a TRANSACTION_CREATED event about a transaction of
\* the source, between passes. The handler works on the mapping the
\* application loaded, which holds the flags and ids of the file; what the
\* load writes into that entry is not persisted. An exception in the first
\* half ends the request before the second.
ReceiveTransaction ==
    /\ run.pc # "loop"
    /\ clock < MaxClock
    /\ clock' = clock + 1
    /\ \E akahu_account_id \in DOMAIN file, env \in Envs(1),
          fault \in {"none", "balance", "post"} :
         /\ akahu[akahu_account_id].txns # <<>>
         /\ \E b \in { HookActual(file[akahu_account_id],
                                   akahu[akahu_account_id].txns[1], db, durable,
                                   clock, env, debug_mode) } :
              \E y \in { IF b.status = "raised"
                         THEN [ status |-> "not reached", rows |-> ynab,
                                posts |-> <<>>, touched |-> FALSE ]
                         ELSE HookYnab(file[akahu_account_id],
                                       akahu[akahu_account_id].txns[1],
                                       GetAkahuBalance(akahu, akahu_account_id),
                                       ynab, clock, fault) } :
                /\ db' = b.rows
                /\ durable' = b.durable
                /\ ynab' = y.rows
                /\ posts' = y.posts
                /\ run' = [run EXCEPT !.touched =
                             @ \cup (IF b.touched THEN {<<akahu_account_id, "ab">>} ELSE {})
                               \cup (IF y.touched THEN {<<akahu_account_id, "ynab">>} ELSE {})]
                /\ last' = [ op |-> "webhook", account |-> akahu_account_id,
                             actual |-> b.status, ynab |-> y.status ]
    /\ UNCHANGED <<universe, debug_mode, mapVars, pageVars, akahu>>

NextHook ==
    \/ StartSyncToAb
    \/ StartSyncToYnab
    \/ SyncToAbAccount
    \/ FinishSyncToAb
    \/ SyncToYnabAccount
    \/ FinishSyncToYnab
    \/ ReceiveTransaction

\* The mappings whose second account is a plain On-Budget one.
HookMappings ==
    { m \in Mappings : m["acc2"] = Entry("On Budget", "ab2", FALSE, "yn2", FALSE) }

InitHook ==
    /\ QuietFeedAndActual
    /\ universe = <<>>
    /\ file \in HookMappings
    /\ mapping_list = file
    /\ ynab = <<>>
    /\ posts = <<>>
    /\ akahu \in Sources
    /\ run = [IdleRun EXCEPT !.file0 = file]

SpecHook == InitHook /\ [][NextHook]_vars

\* The rows of a destination booked to one of its accounts.
RowsOfAccount(rows, account_id) == { i \in 1..Len(rows) : rows[i].acct = account_id }

\* The place of an account in a sequence of accounts.
PosIn(order, a) == CHOOSE i \in 1..Len(order) : order[i] = a

\* C11: in every pass of sync_to_ab and of sync_to_ynab the accounts are
\* taken one at a time in an order that holds each account of the mapping
\* once, every On-Budget account before every other account, and accounts of
\* one class in the order the mapping iterates them; so an account that is not
\* On-Budget has reached the destination only after every On-Budget account
\* was done.
C11_OnBudgetBeforeTracking ==
    run.pc # "idle" =>
        /\ Len(run.order) = Len(AccountOrder)
        /\ \A a \in DOMAIN mapping_list : \E i \in 1..Len(run.order) : run.order[i] = a
        /\ \A i, j \in 1..Len(run.order) :
              i < j =>
                /\ GetAccountPriority(mapping_list[run.order[i]])
                      <= GetAccountPriority(mapping_list[run.order[j]])
                /\ GetAccountPriority(mapping_list[run.order[i]])
                      = GetAccountPriority(mapping_list[run.order[j]])
                   => PosIn(AccountOrder, run.order[i]) < PosIn(AccountOrder, run.order[j])
        /\ \A t \in run.touched, b \in DOMAIN mapping_list :
              (GetAccountPriority(mapping_list[t[1]]) = 1
                 /\ GetAccountPriority(mapping_list[b]) = 0)
              => PosIn(run.order, b) < PosIn(run.order, t[1])
                 /\ PosIn(run.order, t[1]) < run.idx + (IF run.pc = "raised" THEN 1 ELSE 0)

\* A finished pass over a mapping that lists a Tracking account before an
\* On-Budget one, both of which reached the destination.
C11_Witness ==
    /\ run.pc = "done"
    /\ mapping_list[AccountOrder[1]].account_type = "Tracking"
    /\ mapping_list[AccountOrder[2]].account_type = "On Budget"
    /\ run.order = <<AccountOrder[2], AccountOrder[1]>>
    /\ run.touched = {<<AccountOrder[1], run.dest>>, <<AccountOrder[2], run.dest>>}

\* The rows of destination A booked to one of its accounts.
RowsOfYnabAccount(rows, account_id) ==
    { i \in 1..Len(rows) : rows[i].account_id = account_id }

\* get_all_akahu was called for an account in the running pass.
FetchedFor(a) == \E k \in 1..Len(run.fetches) : run.fetches[k].account = a

\* The running pass ended in an exception at an account.
RaisedAt(a) ==
    run.pc = "raised" /\ run.idx <= Len(run.order) /\ run.order[run.idx] = a

\* C12: an account whose entry sets actual_do_not_map never reaches
\* destination B, and one that sets ynab_do_not_map never reaches destination
\* A, in sync_to_ab, sync_to_ynab, update_mapping_timestamps and the
\* receive-transaction webhook: the destination is not read or written for
\* it, holds no row of its destination account, the account is never counted
\* as synced, and its watermark for that destination is never set, in memory
\* or in the persisted mapping.
C12_DoNotMapNeverReached ==
    \A a \in DOMAIN file :
        /\ file[a].actual_do_not_map =>
              /\ <<a, "ab">> \notin run.touched
              /\ RowsOfAccount(db, file[a].actual_account_id) = {}
              /\ run.dest = "ab" => a \notin run.successful
              /\ file[a].actual_synced_datetime = NoWatermark
              /\ mapping_list[a].actual_synced_datetime = NoWatermark
        /\ file[a].ynab_do_not_map =>
              /\ <<a, "ynab">> \notin run.touched
              /\ RowsOfYnabAccount(ynab, file[a].ynab_account_id) = {}
              /\ run.dest = "ynab" => a \notin run.successful
              /\ file[a].ynab_synced_datetime = NoWatermark
              /\ mapping_list[a].ynab_synced_datetime = NoWatermark

\* An account excluded from destination B alone was synced to destination A
\* by a pass and stamped, and then the webhook delivered its transaction:
\* the first half was skipped and the second ran.
C12_Witness ==
    \E a \in DOMAIN file :
        /\ file[a].actual_do_not_map
        /\ ~file[a].ynab_do_not_map
        /\ run.dest = "ynab" /\ run.pc = "done" /\ a \in run.successful
        /\ file[a].ynab_synced_datetime # NoWatermark
        /\ last.op = "webhook" /\ last.account = a
        /\ last.actual = "skipped" /\ last.ynab = "ok"
        /\ RowsOfYnabAccount(ynab, file[a].ynab_account_id) # {}

\* C13 (as claimed): an account whose entry lacks the budget id or the
\* account id of a destination is skipped for that destination without
\* raising, in the passes and in the webhook: the destination is not reached
\* for it, nothing is fetched for it, it is not counted as synced, and neither
\* the pass nor the webhook request ends in an exception at that account.
C13_MissingIdsSkipped ==
    \A a \in DOMAIN file :
        /\ MissingIds(file[a].actual_budget_id, file[a].actual_account_id) =>
              /\ <<a, "ab">> \notin run.touched
              /\ run.dest = "ab" =>
                    /\ a \notin run.successful
                    /\ ~FetchedFor(a)
                    /\ ~RaisedAt(a)
              /\ ~(last.op = "webhook" /\ last.account = a /\ last.actual = "raised")
        /\ MissingIds(file[a].ynab_budget_id, file[a].ynab_account_id) =>
              /\ <<a, "ynab">> \notin run.touched
              /\ run.dest = "ynab" =>
                    /\ a \notin run.successful
                    /\ ~FetchedFor(a)
                    /\ ~RaisedAt(a)
              /\ ~(last.op = "webhook" /\ last.account = a /\ last.ynab = "raised")

\* The same for the two passes alone.
C13_MissingIdsSkippedByPasses ==
    \A a \in DOMAIN file :
        /\ (MissingIds(file[a].actual_budget_id, file[a].actual_account_id)
              /\ run.dest = "ab") =>
                    /\ <<a, "ab">> \notin run.touched
                    /\ a \notin run.successful
                    /\ ~FetchedFor(a)
                    /\ ~RaisedAt(a)
        /\ (MissingIds(file[a].ynab_budget_id, file[a].ynab_account_id)
              /\ run.dest = "ynab") =>
                    /\ <<a, "ynab">> \notin run.touched
                    /\ a \notin run.successful
                    /\ ~FetchedFor(a)
                    /\ ~RaisedAt(a)

(***************************************************************************)
(* The transcoder on amounts of up to five fractional digits.              *)
(***************************************************************************)

\* The last two fractional digits of the amounts tried, in E5.
MaxSubMilli == 99

\* Source amounts around 12.345 dollars, positive and negative, in E5.
TranscodeAmounts(top) == { sign * (1234500 + k) : sign \in {1, -1}, k \in 0..top }

InitTranscode ==
    /\ QuietFeedAndActual
    /\ \E amount \in TranscodeAmounts(MaxSubMilli) :
         universe = << [_id |-> "t1", date |-> 12, amount |-> amount, description |-> "A"] >>
    /\ mapping_list = PlainMapping
    /\ file = PlainMapping
    /\ QuietPass

\* clean_txn_for_ynab on the one-row frame.
TranscodeForYnab ==
    /\ last.op = "none"
    /\ last' = [ op |-> "clean_txn_for_ynab", amount |-> universe[1].amount,
                 cleaned |-> CleanTxnForYnab(universe, mapping_list["acc1"].ynab_account_id) ]
    /\ UNCHANGED <<clock, universe, debug_mode, abVars, mapVars, pageVars, passVars>>

\* load_transactions_into_actual on the one-row frame, into an empty budget.
TranscodeForActual ==
    /\ last.op = "none"
    /\ LET env == [fault |-> "none", at |-> 0, ruleset |-> None]
           r == LoadTransactionsIntoActual(universe, mapping_list["acc1"], db, durable,
                                           clock, env, debug_mode)
       IN  /\ db' = r.rows
           /\ durable' = r.durable
           /\ mapping_list' = [mapping_list EXCEPT !["acc1"] = r.entry]
           /\ last' = [ op |-> "load_transactions_into_actual",
                        amount |-> universe[1].amount,
                        handed |-> Quantize4(universe[1].amount), status |-> r.status ]
    /\ UNCHANGED <<clock, universe, debug_mode, file, pageVars, passVars>>

NextTranscode == TranscodeForYnab \/ TranscodeForActual

SpecTranscode == InitTranscode /\ [][NextTranscode]_vars

\* The distance between two integers.
Dist(x, y) == IF x >= y THEN x - y ELSE y - x

\* C14 (as claimed): clean_txn_for_ynab turns an amount of d dollars into
\* round(d * 1000) milliunits, the integer nearest to d * 1000, for negative
\* and positive amounts and for amounts with more than three fractional
\* digits; load_transactions_into_actual hands the amount over rounded to
\* four fractional digits.
C14_RoundsToMilliunits ==
    /\ last.op = "clean_txn_for_ynab" =>
          /\ last.cleaned[1].amount = RoundHalfEven(last.amount, 100)
          /\ 2 * Dist(100 * last.cleaned[1].amount, last.amount) <= 100
    /\ last.op = "load_transactions_into_actual" =>
          /\ 2 * Dist(10 * last.handed, last.amount) <= 10
          /\ last.status = "ok"
          /\ db[1].amount = DecimalToCents(last.handed)

\* The second half of C14 alone: the amount handed to destination B is the
\* source amount rounded to four fractional digits.
C14_QuantizesToFourDigits ==
    last.op = "load_transactions_into_actual" =>
          /\ 2 * Dist(10 * last.handed, last.amount) <= 10
          /\ last.amount = 1234500 => last.handed = 123450

(***************************************************************************)
(* Whole passes run again after a pass that raised.                        *)
(***************************************************************************)

\* The live rows of a destination-B account that carry an imported id.
ImportedAs(rows, acct, imported_id) ==
    { i \in LiveRows(rows, acct) : rows[i].financial_id = imported_id }

\* The balance adjustments booked to a destination-B account.
AdjustmentsActual(rows, acct) ==
    { i \in LiveRows(rows, acct) : rows[i].payee = "Balance Adjustment" }

\* The balance adjustments booked to a destination-A account.
AdjustmentsYnab(rows, account_id) ==
    { i \in RowsOfYnabAccount(rows, account_id) : rows[i].payee_name = "Balance Adjustment" }

\* The rows of a destination-A account that carry an import id.
ImportedAsYnab(rows, account_id, import_id) ==
    { i \in RowsOfYnabAccount(rows, account_id) : rows[i].import_id = import_id }

\* The source transactions of an account, as a set.
SourceTxns(a) == { akahu[a].txns[k] : k \in 1..Len(akahu[a].txns) }

\* An account takes part in the passes to destination B, or to destination A.
EnabledActual(e) ==
    ~e.actual_do_not_map /\ ~MissingIds(e.actual_budget_id, e.actual_account_id)

EnabledYnab(e) ==
    ~e.ynab_do_not_map /\ ~MissingIds(e.ynab_budget_id, e.ynab_account_id)

\* What one uninterrupted successful pass leaves in destination B for an
\* account: one row per source transaction of an On-Budget account, and for a
\* Tracking account with a source balance the one adjustment that brings the
\* empty account to it.
AsOnePassActual(a) ==
    LET e == file[a]
        acct == e.actual_account_id
    IN  IF ~EnabledActual(e) THEN RowsOfAccount(db, acct) = {}
        ELSE IF e.account_type = "On Budget"
        THEN /\ \A t \in SourceTxns(a) : Cardinality(ImportedAs(db, acct, t._id)) = 1
             /\ Cardinality(RowsOfAccount(db, acct)) = Len(akahu[a].txns)
        ELSE IF akahu[a].balance = NoBalance THEN RowsOfAccount(db, acct) = {}
        ELSE /\ GetActualBalance(db, acct) = AkahuBalanceCents(akahu[a].balance)
             /\ Cardinality(RowsOfAccount(db, acct)) = 1
             /\ Cardinality(AdjustmentsActual(db, acct)) = 1

\* The same for destination A.
AsOnePassYnab(a) ==
    LET e == file[a]
        account_id == e.ynab_account_id
    IN  IF ~EnabledYnab(e) THEN RowsOfYnabAccount(ynab, account_id) = {}
        ELSE IF e.account_type = "On Budget"
        THEN /\ \A t \in SourceTxns(a) :
                   Cardinality(ImportedAsYnab(ynab, account_id, t._id)) = 1
             /\ Cardinality(RowsOfYnabAccount(ynab, account_id)) = Len(akahu[a].txns)
        ELSE IF e.account_type = "Tracking"
        THEN /\ GetYnabBalance(ynab, account_id) = AkahuBalanceMilliunits(akahu[a].balance)
             /\ Cardinality(RowsOfYnabAccount(ynab, account_id)) = 1
             /\ Cardinality(AdjustmentsYnab(ynab, account_id)) = 1
        ELSE RowsOfYnabAccount(ynab, account_id) = {}

\* C15: with the source unchanged, however many passes raised before and
\* wherever they raised, no destination ever holds a source transaction twice
\* or a second balance adjustment for an account, and a pass that completes
\* leaves its destination with exactly the records of one uninterrupted
\* successful pass.
C15_RerunAsOnePass ==
    /\ \A a \in DOMAIN file :
          /\ \A t \in SourceTxns(a) :
                /\ Cardinality(ImportedAs(db, file[a].actual_account_id, t._id)) <= 1
                /\ Cardinality(ImportedAsYnab(ynab, file[a].ynab_account_id, t._id)) <= 1
          /\ Cardinality(AdjustmentsActual(db, file[a].actual_account_id)) <= 1
          /\ Cardinality(AdjustmentsYnab(ynab, file[a].ynab_account_id)) <= 1
    /\ (run.pc = "done" /\ run.dest = "ab") =>
          /\ durable = Len(db)
          /\ \A a \in DOMAIN file : AsOnePassActual(a)
    /\ (run.pc = "done" /\ run.dest = "ynab") =>
          \A a \in DOMAIN file : AsOnePassYnab(a)

\* A pass to destination B completed after the previous one raised at its
\* second account, with the first account's transaction already durable: the
\* first account was fetched and loaded again and the second adjusted.
C15_Witness ==
    /\ run.after_abort
    /\ run.pc = "done" /\ run.dest = "ab"
    /\ run.successful = {"acc1", "acc2"}
    /\ run.uploaded = 1
    /\ file["acc1"].account_type = "On Budget"
    /\ file["acc2"].account_type = "Tracking"
    /\ Cardinality(ImportedAs(db, "ab1", "t1")) = 1
    /\ Cardinality(AdjustmentsActual(db, "ab2")) = 1

(***************************************************************************)
(* Passes over a source that gains transactions between them.              *)
(***************************************************************************)

\* Transactions that become visible in the feed late: a second purchase of
\* the same amount a day after the first, and one timestamped a little less
\* than seven days before the epoch.
LateTxns ==
    { [_id |-> "t2", date |-> 36, amount |-> 1234500, description |-> "A"],
      [_id |-> "t2", date |-> 1 - Week, amount |-> 500000, description |-> "B"] }

\* A transaction becomes visible in the feed of the first account, between
\* passes.
SourceGains ==
    /\ run.pc # "loop"
    /\ Len(akahu["acc1"].txns) <= 1
    /\ \E t \in LateTxns :
         akahu' = [akahu EXCEPT !["acc1"].txns = Append(@, t)]
    /\ UNCHANGED <<abVars, callVars, mapVars, pageVars, ynab, posts, run>>

\* The mapping of two plain On-Budget accounts.
FlowMappings ==
    { m \in HookMappings : m["acc1"] = Entry("On Budget", "ab1", FALSE, "yn1", FALSE) }

InitFlow ==
    /\ QuietFeedAndActual
    /\ universe = <<>>
    /\ file \in FlowMappings
    /\ mapping_list = file
    /\ ynab = <<>>
    /\ posts = <<>>
    /\ akahu \in Sources
    /\ run = [IdleRun EXCEPT !.file0 = file]

NextFlow ==
    \/ StartSyncToAb
    \/ StartSyncToYnab
    \/ SyncToAbAccount
    \/ FinishSyncToAb
    \/ SyncToYnabAccount
    \/ FinishSyncToYnab
    \/ SourceGains

SpecFlow == InitFlow /\ [][NextFlow]_vars

\* The transactions the feed of an account held when the running pass began.
VisibleAtStart(a) == { run.source0[a].txns[k] : k \in 1..Len(run.source0[a].txns) }

\* C16 (as claimed): when a pass to a destination has completed, every
\* transaction that the feed of an enabled On-Budget account held when the
\* pass began, whenever it became visible and whatever its timestamp, is
\* recorded exactly once in that destination.
C16_NothingLost ==
    /\ (run.pc = "done" /\ run.dest = "ab") =>
          \A a \in DOMAIN file :
            (EnabledActual(file[a]) /\ file[a].account_type = "On Budget") =>
              \A t \in VisibleAtStart(a) :
                Cardinality(ImportedAs(db, file[a].actual_account_id, t._id)) = 1
    /\ (run.pc = "done" /\ run.dest = "ynab") =>
          \A a \in DOMAIN file :
            (EnabledYnab(file[a]) /\ file[a].account_type = "On Budget") =>
              \A t \in VisibleAtStart(a) :
                Cardinality(ImportedAsYnab(ynab, file[a].ynab_account_id, t._id)) = 1

(***************************************************************************)
(* The end of pagination, and a failing request.                           *)
(***************************************************************************)

\* A page after which pagination is to end: no cursor object, no usable next
\* token in it (absent, null or empty), or no items.
LastPage(page) ==
    \/ ~page.cursor.present
    \/ ~page.cursor.has_next
    \/ page.cursor.next = None
    \/ page.cursor.next = ""
    \/ Len(page.items) = 0

\* C17 (as claimed): get_all_akahu sends no request after a page that has no
\* cursor object, or a cursor object without a usable next token (absent,
\* null or empty), or no items: every request but the last one sent was
\* answered by a page that is none of these.
C17_NoRequestAfterLastPage ==
    \A k \in 1..(Len(requests) - 1) : ~LastPage(ServePage(feed, requests[k]))

\* The same without the empty token: a page with no cursor object, no next
\* member, a null next, or no items ends the requests.
C17_NoRequestAfterEndOfCursor ==
    \A k \in 1..(Len(requests) - 1) :
        LET page == ServePage(feed, requests[k])
        IN  /\ page.cursor.present
            /\ page.cursor.has_next
            /\ page.cursor.next # None
            /\ Len(page.items) > 0

\* One iteration of the while loop whose request succeeds, followed for its
\* control alone: the cursor moves on and the request is logged, in a log
\* that starts again when it is full; the frame is left out.
FetchPageControl ==
    /\ pg = "loop"
    /\ next_cursor # None
    /\ LET qc   == NextQueryCursor(next_cursor, query_cursor)
           page == ServePage(feed, qc)
       IN  /\ query_cursor' = qc
           /\ requests' = IF Len(requests) < MaxRequests
                           THEN Append(requests, qc) ELSE <<qc>>
           /\ next_cursor' = IF HasMorePages(page) THEN page.cursor.next ELSE None
    /\ UNCHANGED <<feed, pg, res>>
    /\ UNCHANGED notPage

NextFeedControl == FetchPageControl \/ FetchFails \/ FetchReturn

\* A call that is running takes its next iteration, or returns; whether a
\* request fails is up to the network.
SpecFeedControl ==
    /\ InitFeed
    /\ [][NextFeedControl]_vars
    /\ WF_vars(FetchPageControl)
    /\ WF_vars(FetchReturn)

\* C18 (as claimed): get_all_akahu always terminates, whatever the feed
\* answers: every call eventually returns or raises.
C18_AlwaysTerminates == <>(pg # "loop")

\* A request of the call has failed: the call is over with a cursor still to
\* follow.
Failed == pg # "loop" /\ next_cursor # None

\* C20: when a page request fails, get_all_akahu raises; the items of the
\* pages it had fetched are not returned; and the request is not sent again:
\* the failed request is the last one of the call and no further iteration
\* can run.
C20_FailedFetchRaises ==
    Failed =>
        /\ pg = "raised"
        /\ res = <<>>
        /\ Len(requests) >= 1
        /\ requests[Len(requests)] = query_cursor
        /\ ~ENABLED FetchPage
        /\ ~ENABLED FetchFails
        /\ ~ENABLED FetchReturn

\* The third request of a call failed after two pages with items had been
\* fetched.
C20_Witness ==
    /\ Failed
    /\ Len(requests) = 3
    /\ Len(ServePage(feed, requests[1]).items) > 0
    /\ Len(ServePage(feed, requests[2]).items) > 0

(***************************************************************************)
(* The fetch window.                                                       *)
(***************************************************************************)

\* The watermark of an account for the destination of the running pass, as
\* the mapping held it when the pass began.
WatermarkAtStart(a) ==
    IF run.dest = "ab" THEN run.file0[a].actual_synced_datetime
    ELSE run.file0[a].ynab_synced_datetime

\* C19: every fetch of a pass asks for the transactions from exactly seven
\* days before the account's watermark for the pass's destination, as the
\* mapping held it when the pass began; an account without a stored
\* watermark is fetched as if its watermark were the epoch; and
\* get_all_akahu given no watermark asks from the epoch itself.
C19_WindowFromWatermark ==
    /\ \A k \in 1..Len(run.fetches) :
          LET a == run.fetches[k].account
              w == WatermarkAtStart(a)
          IN  /\ w # NoWatermark => run.fetches[k].start = w - 168
              /\ w = NoWatermark => run.fetches[k].start = Epoch - 168
    /\ QueryStart(NoWatermark) = Epoch

\* A pass fetched for an account it had stamped in an earlier pass and for one
\* without a stored watermark.
C19_Witness ==
    /\ Len(run.fetches) = 2
    /\ WatermarkAtStart(run.fetches[1].account) > Epoch
    /\ run.fetches[1].start = WatermarkAtStart(run.fetches[1].account) - Week
    /\ WatermarkAtStart(run.fetches[2].account) = NoWatermark
    /\ run.fetches[2].start = Epoch - Week

(***************************************************************************)
(* A fatal error inside a pass.                                            *)
(***************************************************************************)

\* The accounts that follow the running one in the processing order.
AccountsAfter(r) == { r.order[j] : j \in (r.idx + 1)..Len(r.order) }

\* C21: once a fatal error was raised while an account of a pass was being
\* processed (a failed fetch, a failed commit, a refused post, a failure while
\* reconciling a transaction), the pass has ended in that exception: no
\* account after it in the processing order was fetched from the source or
\* has reached the destination in that pass, and no further iteration of
\* either pass can run.
C21_FatalErrorEndsPass ==
    run.fatal =>
        /\ run.pc = "raised"
        /\ \A a \in AccountsAfter(run) :
              /\ <<a, run.dest>> \notin run.touched
              /\ ~FetchedFor(a)
        /\ ~ENABLED SyncToAbAccount
        /\ ~ENABLED SyncToYnabAccount
        /\ ~ENABLED FinishSyncToAb
        /\ ~ENABLED FinishSyncToYnab

\* The first account of a pass raised after it had reached the destination,
\* and the account after it is an On-Budget one with a transaction to fetch
\* that takes part in the pass.
C21_Witness ==
    /\ run.fatal
    /\ run.idx = 1
    /\ <<run.order[1], run.dest>> \in run.touched
    /\ LET a == run.order[2]
       IN  /\ mapping_list[a].account_type = "On Budget"
           /\ akahu[a].txns # <<>>
           /\ IF run.dest = "ab" THEN EnabledActual(mapping_list[a])
              ELSE EnabledYnab(mapping_list[a])

(***************************************************************************)
(* The watermarks a completed pass persists.                               *)
(***************************************************************************)

\* The stored watermark of an account for a destination.
StoredWatermark(a, dest) ==
    IF dest = "ab" THEN file[a].actual_synced_datetime
    ELSE file[a].ynab_synced_datetime

\* An account was dispatched by the running pass and nothing went wrong for
\* it: it is not excluded, holds the destination's ids, and is an On-Budget
\* account or a Tracking account whose source balance could be read.
Dispatched(a) ==
    LET e == file[a]
    IN  /\ IF run.dest = "ab" THEN EnabledActual(e) ELSE EnabledYnab(e)
        /\ \/ e.account_type = "On Budget"
           \/ e.account_type = "Tracking" /\ GetAkahuBalance(akahu, a) # NoBalance

\* C22 (as claimed): when a pass has completed, the stored watermark of every
\* account it dispatched and processed without error is the time the pass
\* ended, also that of an On-Budget account whose fetch returned no
\* transaction.
C22_SuccessfulAccountsStamped ==
    run.pc = "done" =>
        \A a \in DOMAIN file :
            Dispatched(a) => StoredWatermark(a, run.dest) = clock

\* The same for the accounts whose fetch returned a transaction and for the
\* Tracking accounts.
C22_LoadedAccountsStamped ==
    run.pc = "done" =>
        \A a \in DOMAIN file :
            (Dispatched(a) /\ (file[a].account_type = "On Budget" => akahu[a].txns # <<>>))
                => StoredWatermark(a, run.dest) = clock

(***************************************************************************)
(* The end of a pass to destination B.                                     *)
(***************************************************************************)

\* C23: in sync_to_ab the end-of-pass round trip (commit, sync request, fresh
\* download) is made at most once, only after the last account, and exactly
\* when the pass uploaded something; when it fails the pass ends in the
\* exception without update_mapping_timestamps and the persisted mapping is
\* as it was; when it is skipped the accounts that succeeded are stamped all
\* the same.
C23_RoundTripOnceAfterLastAccount ==
    run.dest = "ab" =>
        /\ run.round_trips <= 1
        /\ run.round_trips = 1 =>
              /\ run.idx = Len(run.order) + 1
              /\ run.uploaded > 0
        /\ run.pc = "done" => (run.round_trips = 1 <=> run.uploaded > 0)
        /\ (run.pc = "raised" /\ run.idx = Len(run.order) + 1) =>
              /\ run.round_trips = 1
              /\ run.stamp_calls = 0
              /\ file = run.file0
        /\ (run.pc = "done" /\ run.round_trips = 0) =>
              /\ run.stamp_calls = (IF run.successful # {} THEN 1 ELSE 0)
              /\ \A a \in run.successful : file[a].actual_synced_datetime = clock

\* A pass that found every transaction already imported: nothing uploaded, no
\* round trip, and the account stamped.
C23_Witness ==
    /\ run.dest = "ab"
    /\ run.pc = "done"
    /\ run.round_trips = 0
    /\ run.successful # {}
    /\ run.stamp_calls = 1
    /\ \E a \in run.successful :
          /\ file[a].actual_synced_datetime = clock
          /\ run.file0[a].actual_synced_datetime # clock

ProcessedAll ==
    /\ last.env.fault \notin {"setup", "reconcile"}
    /\ \A k \in 1..Len(last.txns) : ConvertToNzt(last.txns[k].date) # NoDay

\* C24: a call of load_transactions_into_actual on a non-empty batch issues
\* exactly one commit call when every transaction of the batch was processed,
\* whatever the size of the batch and also when no record was created, and
\* none when processing raised; a call that returns has committed, and one
\* that issued no commit leaves the durable rows as they were.
C24_OneCommitPerCall ==
    (last.op = "load_actual") =>
        /\ last.commit_calls = (IF ProcessedAll THEN 1 ELSE 0)
        /\ last.status = "ok" => (last.commit_calls = 1 /\ durable = Len(db))
        /\ last.commit_calls = 0 =>
              (last.status = "raised" /\ durable = last.pre_durable)

\* A batch of two transactions that both matched stored rows: nothing was
\* created and the call committed once.
C24_Witness ==
    /\ LoadedOk
    /\ Len(last.txns) = 2
    /\ last.count = 0
    /\ Len(db) = Len(last.pre_rows)
    /\ last.commit_calls = 1

\* C26: the count a call of load_transactions_into_actual returns is the
\* number of transactions of the batch for which a record was created; a
\* transaction that matched a stored record leaves that record as it was,
\* category included, so the rule set was not run on it, and it adds nothing
\* to the count, which is the length of the in-batch list; the rule set is
\* run on the records created.
C26_CountsCreatedOnly ==
    LoadedOk =>
        /\ last.count = Cardinality(CreatedRows)
        /\ last.count <= Len(last.txns)
        /\ \A i \in 1..Len(last.pre_rows) : db[i] = last.pre_rows[i]
        /\ \A j \in CreatedRows :
              /\ \E k \in 1..Len(last.txns) : last.txns[k]._id = db[j].financial_id
              /\ (db[j].category = "Rule") <=>
                    (last.env.ruleset # None /\ db[j].imported_description = "B")

\* A batch of two under a rule set: one transaction matched a stored record
\* that the rule would have changed, the other was created; the call
\* returned 1.
C26_Witness ==
    /\ LoadedOk
    /\ Len(last.txns) = 2
    /\ last.count = 1
    /\ last.env.ruleset # None
    /\ \E i \in 1..Len(last.pre_rows) :
          /\ last.pre_rows[i].imported_description = "B"
          /\ last.pre_rows[i].category = None
          /\ db[i].category = None
          /\ \E k \in 1..2 : last.txns[k]._id = last.pre_rows[i].financial_id

\* The rows the last call created under an import id.
CreatedAs(fid) == { j \in CreatedRows : db[j].financial_id = fid }

\* C27: within one batch of load_transactions_into_actual, transactions that
\* carry the same id create at most one record between them, whatever else
\* differs in them: the record created for the first is found for the later
\* ones.
C27_OneRecordPerIdInBatch ==
    (last.op = "load_actual") =>
        \A k \in 1..Len(last.txns) : Cardinality(CreatedAs(last.txns[k]._id)) <= 1

\* A batch of two different transactions with one id, unknown to the
\* destination before: one record was created.
C27_Witness ==
    /\ LoadedOk
    /\ Len(last.txns) = 2
    /\ last.txns[1]._id = last.txns[2]._id
    /\ last.txns[1].amount # last.txns[2].amount
    /\ RowsWithId(last.pre_rows, LastAcct, last.txns[1]._id) = {}
    /\ Cardinality(CreatedAs(last.txns[1]._id)) = 1
    /\ last.count = 1


(***************************************************************************)
(* The head of sync_to_ab: FORCE_REFRESH                                   *)
(***************************************************************************)

InitRefresh ==
    /\ QuietFeedAndActual
    /\ universe = <<>>
    /\ file \in Mappings
    /\ mapping_list = file
    /\ ynab = <<>>
    /\ posts = <<>>
    /\ akahu \in Sources
    /\ \E force_refresh \in BOOLEAN :
         run = [IdleRun EXCEPT !.file0 = file, !.force_refresh = force_refresh]

\* sync_to_ab is entered on the client it is given, whatever its session
\* holds: rows a failed commit of an earlier pass left pending included.
EnterSyncToAb ==
    /\ run.pc # "loop"
    /\ clock < MaxClock
    /\ clock' = clock + 1
    /\ mapping_list' = file
    /\ \E e \in { ForceRefresh(run.force_refresh, db, durable) } :
         /\ db' = e.rows
         /\ run' = [Retrying(NewRun("ab", file, file), run) EXCEPT
                      !.refreshes = e.refreshes]
    /\ last' = [ op |-> "sync_to_ab", pre_rows |-> db, pre_durable |-> durable ]
    /\ UNCHANGED <<durable, universe, debug_mode, file, pageVars, ynab, posts, akahu>>

NextRefresh == EnterSyncToAb \/ SyncToAbAccount \/ FinishSyncToAb

SpecRefresh == InitRefresh /\ [][NextRefresh]_vars

\* A pass of sync_to_ab is under way and has written to no account yet.
NothingWrittenYet == run.dest = "ab" /\ run.pc = "loop" /\ run.touched = {}

\* C28: with FORCE_REFRESH, sync_to_ab refreshes once, on entry: until the
\* first account is written the session holds the rows of a fresh download,
\* the rows the server holds, so pending rows of the session it was given
\* are gone, and nothing was fetched before the refresh; without
\* FORCE_REFRESH no refresh is made and until the first account is written
\* the session is the one the pass was given.
C28_ForceRefreshBeforeFirstAccount ==
    /\ run.dest = "ab" =>
          run.refreshes = (IF run.force_refresh THEN 1 ELSE 0)
    /\ NothingWrittenYet =>
          /\ db = IF run.force_refresh
                  THEN SubSeq(last.pre_rows, 1, last.pre_durable)
                  ELSE last.pre_rows
          /\ durable = last.pre_durable
    /\ (run.dest = "ab" /\ run.pc = "loop" /\ run.idx = 1) =>
          run.fetches = <<>> /\ run.touched = {}

\* A pass with FORCE_REFRESH was entered on a session with a pending row,
\* and no account has been looked at yet.
C28_Witness ==
    /\ NothingWrittenYet
    /\ run.idx = 1
    /\ run.force_refresh
    /\ run.refreshes = 1
    /\ last.pre_durable < Len(last.pre_rows)
    /\ Len(db) = last.pre_durable


(***************************************************************************)
(* Transactions without a usable date                                      *)
(***************************************************************************)

\* The transactions of a batch that convert_to_nzt gives a date.
Dated(txns) == { k \in 1..Len(txns) : ConvertToNzt(txns[k].date) # NoDay }

\* C29 (as claimed): a transaction whose date is missing or malformed is
\* never submitted to a destination: the body load_transactions_into_ynab
\* posts holds no more records than the batch has dated transactions, no
\* record destination A creates lacks a date, and no record of destination B
\* lacks one.
C29_NullDatesNeverSubmitted ==
    /\ last.op = "load_ynab" =>
          /\ \A p \in 1..Len(posts) : Len(posts[p]) <= Cardinality(Dated(last.txns))
          /\ \A i \in CreatedYnab : ynab[i].date # NoDay
    /\ \A i \in 1..Len(db) : db[i].date # NoDay

\* The half of C29 that concerns destination B: convert_to_nzt gives None,
\* strptime raises on it inside the loop's try, and the call ends in
\* RuntimeError before the transaction is reconciled, so no record without a
\* date is stored; the records of the rows before it stay pending.
C29_ActualRaisesOnNullDate ==
    /\ \A i \in 1..Len(db) : db[i].date # NoDay
    /\ (last.op = "load_actual" /\ last.status = "ok") =>
          Dated(last.txns) = 1..Len(last.txns)


(***************************************************************************)
(* The payee of a transaction with a merchant                              *)
(***************************************************************************)

\* What the source sends under "merchant": nothing, null, an object with a
\* name, with a null name or without one, a number, a string.
Merchants ==
    { [kind |-> "nan"], [kind |-> "dict", name |-> "M"],
      [kind |-> "dict", name |-> None], [kind |-> "dict", id |-> "m1"],
      [kind |-> "number"], [kind |-> "str"] }

\* One source transaction, with or without a merchant key.
PayeeTxns ==
    { [_id |-> "t1", date |-> 12, amount |-> 1234500, description |-> d] :
        d \in {"A", "B"} }
    \cup { [_id |-> "t1", date |-> 12, amount |-> 1234500, description |-> d,
            merchant |-> m] : d \in {"A", "B"}, m \in Merchants }

InitPayee ==
    /\ IdleFeed
    /\ db = <<>>
    /\ durable = 0
    /\ clock = 1
    /\ debug_mode \in {None, "all"}
    /\ last = NoCall
    /\ \E txn \in PayeeTxns : universe = <<txn>>
    /\ mapping_list = PlainMapping
    /\ file = PlainMapping
    /\ QuietPass

\* clean_txn_for_ynab and load_transactions_into_ynab on the one-row frame.
PayeeForYnab ==
    /\ posts = <<>>
    /\ \E fails \in BOOLEAN :
         \E cleaned_txn \in { CleanTxnForYnab(universe, mapping_list["acc1"].ynab_account_id) } :
           \E r \in { LoadTransactionsIntoYnab(cleaned_txn, ynab, fails) } :
              /\ ynab' = r.rows
              /\ posts' = r.posts
              /\ last' = [ op |-> "load_ynab", cleaned |-> cleaned_txn,
                           status |-> r.status, fails |-> fails ]
    /\ UNCHANGED <<clock, universe, debug_mode, abVars, mapVars, pageVars, akahu, run>>

\* load_transactions_into_actual on the one-row frame, into an empty budget.
PayeeForActual ==
    /\ db = <<>>
    /\ \E env \in Envs(1) :
         \E r \in { LoadTransactionsIntoActual(universe, mapping_list["acc1"], db, durable,
                                               clock, env, debug_mode) } :
           /\ db' = r.rows
           /\ durable' = r.durable
           /\ mapping_list' = [mapping_list EXCEPT !["acc1"] = r.entry]
           /\ last' = [ op |-> "load_actual", status |-> r.status, env |-> env ]
    /\ UNCHANGED <<clock, universe, debug_mode, file, pageVars, passVars>>

NextPayee == PayeeForYnab \/ PayeeForActual

SpecPayee == InitPayee /\ [][NextPayee]_vars

\* The transaction carries a merchant object with a name.
HasNamedMerchant(txn) ==
    /\ "merchant" \in DOMAIN txn
    /\ txn.merchant.kind = "dict"
    /\ "name" \in DOMAIN txn.merchant
    /\ txn.merchant.name # None

\* The payee the rule of get_payee_name's docstring gives.
PreferredPayee(txn) ==
    IF HasNamedMerchant(txn) THEN txn.merchant.name ELSE txn.description

\* C30 (as claimed): the payee of a record written to destination B is the
\* merchant's name when the source transaction carries a merchant object
\* with a name and the description otherwise, and the payee_name sent to
\* destination A follows the same rule, except that a merchant the lookup
\* raises on gives "Unknown" and the batch is still sent.
C30_PayeePrefersMerchant ==
    /\ \A i \in 1..Len(db) : db[i].payee = PreferredPayee(universe[1])
    /\ last.op = "load_ynab" =>
          /\ Len(last.cleaned) = 1
          /\ last.cleaned[1].payee_name =
                IF "merchant" \in DOMAIN universe[1] /\ RaisesOnLookup(universe[1].merchant)
                THEN "Unknown"
                ELSE PreferredPayee(universe[1])
          /\ posts = <<BodyOf(last.cleaned)>>
          /\ ~last.fails => last.status = "ok"

\* The half of C30 that concerns destination A.
C30_PayeeNameForYnab ==
    /\ last.op = "load_ynab" =>
          /\ Len(last.cleaned) = 1
          /\ last.cleaned[1].payee_name =
                IF "merchant" \in DOMAIN universe[1] /\ RaisesOnLookup(universe[1].merchant)
                THEN "Unknown"
                ELSE PreferredPayee(universe[1])
          /\ posts = <<BodyOf(last.cleaned)>>
          /\ ~last.fails => last.status = "ok"
    /\ \A i \in 1..Len(ynab) :
          ynab[i].payee_name \in {"Unknown", PreferredPayee(universe[1])}

\* What destination B gets: the description, whatever the merchant.
C30_ActualPayeeIsDescription ==
    \A i \in 1..Len(db) : db[i].payee = universe[1].description


(***************************************************************************)
(* Accounts of a type the engine does not know                             *)
(***************************************************************************)

\* The account's type is neither "On Budget" nor "Tracking".
UnknownType(entry) == entry.account_type \notin {"On Budget", "Tracking"}

\* The running pass dispatches the account on its type: the entry is neither
\* excluded from the pass's destination nor without its ids.
DispatchedOnType(entry, dest) ==
    IF dest = "ab"
    THEN /\ ~NotMapped(entry.actual_do_not_map)
         /\ ~MissingIds(entry.actual_budget_id, entry.actual_account_id)
    ELSE /\ ~NotMapped(entry.ynab_do_not_map)
         /\ ~MissingIds(entry.ynab_budget_id, entry.ynab_account_id)

\* C31: in a pass, an account of an unknown type comes after every On-Budget
\* account and nothing is written to a destination for it; sync_to_ab raises
\* when it reaches the account, so the pass never gets past it and ends with
\* the persisted mapping as it was at the start of the pass; sync_to_ynab
\* does not raise at it, does not count it as synced and goes on.
C31_UnknownTypeAccount ==
    \A a \in DOMAIN mapping_list :
        (run.pc # "idle" /\ UnknownType(mapping_list[a])) =>
            /\ \A b \in DOMAIN mapping_list :
                  mapping_list[b].account_type = "On Budget" =>
                      PosIn(run.order, b) < PosIn(run.order, a)
            /\ <<a, run.dest>> \notin run.touched
            /\ ~FetchedFor(a)
            /\ RowsOfAccount(db, mapping_list[a].actual_account_id) = {}
            /\ RowsOfYnabAccount(ynab, mapping_list[a].ynab_account_id) = {}
            /\ a \notin run.successful
            /\ (run.dest = "ab" /\ DispatchedOnType(mapping_list[a], "ab")) =>
                  /\ run.idx <= PosIn(run.order, a)
                  /\ run.pc # "done"
                  /\ RaisedAt(a) => (run.fatal /\ file = run.file0)
            /\ run.dest = "ynab" => ~RaisedAt(a)

\* sync_to_ab loaded an On-Budget account, then raised at an account of an
\* unknown type; the persisted mapping holds no watermark.
C31_Witness ==
    \E a, b \in DOMAIN mapping_list :
        /\ UnknownType(mapping_list[a])
        /\ run.dest = "ab"
        /\ RaisedAt(a)
        /\ run.touched = {<<b, "ab">>}
        /\ RowsOfAccount(db, mapping_list[b].actual_account_id) # {}
        /\ file = run.file0
        /\ \A c \in DOMAIN file : file[c].actual_synced_datetime = NoWatermark

\* sync_to_ynab went past an account of an unknown type and finished.
C31_YnabPassGoesOn ==
    \E a \in DOMAIN mapping_list :
        /\ UnknownType(mapping_list[a])
        /\ DispatchedOnType(mapping_list[a], "ynab")
        /\ run.dest = "ynab"
        /\ run.pc = "done"


(***************************************************************************)
(* The /sync request: run_full_sync and its response                       *)
(***************************************************************************)

\* max(..., default="Never") over no account.
Never == -200000

\* The greatest of a non-empty set of integers.
MaxOf(S) == CHOOSE x \in S : \A y \in S : y <= x

\* generate_sync_report: the accounts configured for each destination, the
\* counts the passes returned and the latest watermark of each destination.
GenerateSyncReport(mapping, actual_count, ynab_count) ==
    LET ab_marks == { LastReconciledAt(mapping[a].actual_synced_datetime) :
                        a \in { x \in DOMAIN mapping : mapping[x].actual_account_id # None } }
        yn_marks == { LastReconciledAt(mapping[a].ynab_synced_datetime) :
                        a \in { x \in DOMAIN mapping : mapping[x].ynab_account_id # None } }
    IN  [ code   |-> 200,
          status |-> "success",
          stats  |-> [ actual |-> [ accounts |-> Cardinality(
                                        { a \in DOMAIN mapping :
                                            /\ mapping[a].actual_account_id # None
                                            /\ ~mapping[a].actual_do_not_map }),
                                    transactions_created |-> actual_count,
                                    last_sync |-> IF ab_marks = {} THEN Never
                                                  ELSE MaxOf(ab_marks) ],
                       ynab   |-> [ accounts |-> Cardinality(
                                        { a \in DOMAIN mapping :
                                            /\ mapping[a].ynab_account_id # None
                                            /\ ~mapping[a].ynab_do_not_map }),
                                    transactions_created |-> ynab_count,
                                    last_sync |-> IF yn_marks = {} THEN Never
                                                  ELSE MaxOf(yn_marks) ] ] ]

\* A handler that reports what was counted before the exception.
RunFullSyncResponse_Partial(raised, mapping, actual_count, ynab_count) ==
    GenerateSyncReport(mapping, actual_count, ynab_count)

\* What run_full_sync returns: the report, or from the except clause the
\* error body with status 500.
RunFullSyncResponse(raised, mapping, actual_count, ynab_count) ==
    IF raised
    THEN [ code |-> 500, status |-> "error", error |-> "str(e)" ]
    ELSE GenerateSyncReport(mapping, actual_count, ynab_count)

\* A /sync request arrives (both destinations switched on): the mapping is
\* loaded, the budget downloaded and sync_to_ab entered.
RunFullSync ==
    /\ last.op # "sync"
    /\ run.pc # "loop"
    /\ clock < MaxClock
    /\ clock' = clock + 1
    /\ mapping_list' = file
    /\ \E e \in { ForceRefresh(run.force_refresh, SubSeq(db, 1, durable), durable) } :
         /\ db' = e.rows
         /\ run' = [Retrying(NewRun("ab", file, file), run) EXCEPT
                      !.refreshes = e.refreshes]
    /\ last' = [ op |-> "sync", actual_count |-> 0, ab_returned |-> FALSE,
                 ynab0 |-> ynab, file0 |-> file ]
    /\ UNCHANGED <<durable, universe, debug_mode, file, pageVars, ynab, posts, akahu>>

\* sync_to_ab has returned its count and the request goes on to sync_to_ynab
\* with the same mapping.
RunFullSyncGoesOn ==
    /\ last.op = "sync"
    /\ run.dest = "ab"
    /\ run.pc = "done"
    /\ run' = NewRun("ynab", mapping_list, file)
    /\ posts' = <<>>
    /\ last' = [last EXCEPT !.actual_count = run.uploaded, !.ab_returned = TRUE]
    /\ UNCHANGED <<abVars, clock, universe, debug_mode, mapVars, pageVars, ynab, akahu>>

\* The request ends: sync_to_ynab has returned and the report is generated,
\* or a pass has raised and the except clause answers.
RunFullSyncReturns ==
    /\ last.op = "sync"
    /\ \/ run.pc = "raised"
       \/ run.dest = "ynab" /\ run.pc = "done"
    /\ last' = [ op |-> "sync_response",
                 raised |-> run.pc = "raised",
                 actual_count |-> last.actual_count,
                 ab_returned |-> last.ab_returned,
                 ynab0 |-> last.ynab0,
                 file0 |-> last.file0,
                 response |-> RunFullSyncResponse(run.pc = "raised", mapping_list,
                                                  last.actual_count,
                                                  IF run.pc = "raised" THEN 0
                                                  ELSE run.uploaded) ]
    /\ UNCHANGED <<abVars, clock, universe, debug_mode, mapVars, pageVars, passVars>>

NextSync ==
    \/ RunFullSync
    \/ SyncToAbAccount
    \/ FinishSyncToAb
    \/ RunFullSyncGoesOn
    \/ SyncToYnabAccount
    \/ FinishSyncToYnab
    \/ RunFullSyncReturns

SpecSync == Init /\ [][NextSync]_vars

\* C32: a /sync request in which a pass raised is answered with status 500
\* and a body of the error status and the message alone, without counts or
\* statistics, also when sync_to_ab had returned before sync_to_ynab raised;
\* a request whose sync_to_ab raised has not entered sync_to_ynab: destination
\* A is as it was when the request arrived; and sync_to_ynab runs in a request
\* only after sync_to_ab has returned.
C32_ErrorResponseHasNoCounts ==
    /\ (last.op = "sync_response" /\ last.raised) =>
          /\ DOMAIN last.response = {"code", "status", "error"}
          /\ last.response.code = 500
          /\ last.response.status = "error"
    /\ (last.op = "sync_response" /\ ~last.raised) =>
          /\ last.ab_returned
          /\ run.dest = "ynab"
          /\ last.response.code = 200
          /\ last.response.stats.actual.transactions_created = last.actual_count
          /\ last.response.stats.ynab.transactions_created = run.uploaded
    /\ (last.op \in {"sync", "sync_response"} /\ run.dest = "ab") =>
          /\ ~last.ab_returned
          /\ ynab = last.ynab0
          /\ last.op = "sync_response" => last.raised
    /\ (last.op \in {"sync", "sync_response"} /\ run.dest = "ynab") => last.ab_returned

\* sync_to_ab created a record, committed it and persisted a watermark, then
\* sync_to_ynab raised, and the request was answered with the error alone.
C32_Witness ==
    /\ last.op = "sync_response"
    /\ last.raised
    /\ last.ab_returned
    /\ last.actual_count > 0
    /\ run.dest = "ynab"
    /\ durable > 0
    /\ \E a \in DOMAIN file :
          /\ file[a].actual_synced_datetime # NoWatermark
          /\ last.file0[a].actual_synced_datetime = NoWatermark
    /\ "stats" \notin DOMAIN last.response


(***************************************************************************)
(* The debug selector                                                      *)
(***************************************************************************)

\* The values of the debug selector: None, 'all', or the id of a transaction.
DebugModes == {None, "all", "t1", "t2"}

\* What the last call of load_transactions_into_actual would have done on
\* the same batch, entry, session, time and environment under another
\* selector.
SameCallUnder(dbg) ==
    LoadTransactionsIntoActual(last.txns, last.pre_entry, last.pre_rows,
                               last.pre_durable, clock - Len(last.txns),
                               last.env, dbg)

\* C33: load_transactions_into_actual does the same under every value of the
\* debug selector: for the batch, session and environment of the call made,
\* each other selector (None, 'all', the id of a transaction of the batch or
\* of none) ends the same way, leaves the same session rows, the stored ones
\* as they were and the same ones created, makes the same rows durable and
\* returns the same count.
C33_DebugSelectorChangesNothing ==
    (last.op = "load_actual") =>
        \A dbg \in DebugModes :
            \E r \in { SameCallUnder(dbg) } :
                /\ r.status = last.status
                /\ r.rows = db
                /\ r.durable = durable
                /\ r.count = last.count
                /\ r.entry = mapping_list[last.account]

\* A call under the selector "t1" on a batch of two: the transaction t1
\* matched a stored record on the debug path, which was left as it was, and
\* the other transaction was created.
C33_Witness ==
    /\ LoadedOk
    /\ debug_mode = "t1"
    /\ Len(last.txns) = 2
    /\ \E k \in 1..2 : last.txns[k]._id = "t1"
    /\ \E k \in 1..2 : last.txns[k]._id = "t2"
    /\ RowsWithId(last.pre_rows, LastAcct, "t1") # {}
    /\ last.count = 1
    /\ Len(db) = Len(last.pre_rows) + 1


(***************************************************************************)
(* Tracking accounts                                                       *)
(***************************************************************************)

\* C34 (as claimed): nothing but balance adjustments is ever written for a
\* Tracking account, by the passes or by the receive-transaction webhook:
\* every record of its destination-B account and every transaction of its
\* destination-A account is a balance adjustment.
C34_TrackingByBalanceOnly ==
    \A a \in DOMAIN file :
        file[a].account_type = "Tracking" =>
            /\ \A i \in RowsOfAccount(db, file[a].actual_account_id) :
                  /\ db[i].payee = "Balance Adjustment"
                  /\ \A k \in 1..Len(akahu[a].txns) :
                        db[i].financial_id # akahu[a].txns[k]._id
            /\ \A i \in RowsOfYnabAccount(ynab, file[a].ynab_account_id) :
                  ynab[i].payee_name = "Balance Adjustment"

\* The half of C34 that concerns destination A: the passes and the webhook
\* write nothing but balance adjustments for a Tracking account there.
C34_TrackingByBalanceOnlyYnab ==
    \A a \in DOMAIN file :
        file[a].account_type = "Tracking" =>
            \A i \in RowsOfYnabAccount(ynab, file[a].ynab_account_id) :
                ynab[i].payee_name = "Balance Adjustment"


\* C35 (as claimed): after a pass that ended without error, the persisted
\* mapping holds, for every Tracking account the pass synced, the source
\* balance the pass read for it and wrote into the account's entry.
C35_BalancePersisted ==
    run.pc = "done" =>
        \A a \in run.successful :
            mapping_list[a].account_type = "Tracking" =>
                /\ mapping_list[a].akahu_balance = GetAkahuBalance(akahu, a)
                /\ file[a].akahu_balance = mapping_list[a].akahu_balance

\* What holds of the balance: the entry of the mapping in memory carries it,
\* and the persisted mapping, which update_mapping_timestamps loads from the
\* file and saves with the watermarks alone changed, keeps the balance it
\* had when the pass began.
C35_BalanceOnlyInMemory ==
    run.pc = "done" =>
        \A a \in run.successful :
            mapping_list[a].account_type = "Tracking" =>
                /\ mapping_list[a].akahu_balance = GetAkahuBalance(akahu, a)
                /\ file[a].akahu_balance = run.file0[a].akahu_balance


(***************************************************************************)
(* Request handlers running at the same time                               *)
(***************************************************************************)

\* The server threads that run request handlers; app.run serves each request
\* on a thread of its own and the handlers take no lock.
Threads == {1, 2}

\* A thread that runs no handler.
IdleThread ==
    [ pc |-> "idle", account |-> None, successful |-> {}, mappings |-> <<>>,
      current_time |-> 0 ]

\* Two On-Budget accounts mapped to both destinations.
SharedMapping ==
    [ a \in {"acc1", "acc2"} |->
        IF a = "acc1" THEN Entry("On Budget", "ab1", FALSE, "yn1", FALSE)
        ELSE Entry("On Budget", "ab2", FALSE, "yn2", FALSE) ]

\* The source transaction of an account.
TxnOf(a) ==
    [ _id |-> IF a = "acc1" THEN "t1" ELSE "t2", date |-> 12, amount |-> 1234500,
      description |-> "A" ]

\* In the threaded scenarios `run` holds the handler each thread is running
\* and `last` the watermarks that update_mapping_timestamps calls have saved.
InitShared ==
    /\ IdleFeed
    /\ db = <<>>
    /\ durable = 0
    /\ clock = 1
    /\ debug_mode = None
    /\ universe = <<>>
    /\ file = SharedMapping
    /\ mapping_list = file
    /\ ynab = <<>>
    /\ posts = <<>>
    /\ akahu = NoSource
    /\ last = [ op |-> "threads", written |-> {} ]
    /\ run = [ t \in Threads |-> IdleThread ]

\* A thread is between the download_budget of its handler and the return of
\* the load it makes on the shared client.
InClient(th) == th.pc \in {"sync_to_ab", "hook_load"}

\* A /sync request arrives on an idle thread: the budget is downloaded on the
\* shared client before sync_to_ab is entered.
RunFullSyncArrives ==
    /\ clock < MaxClock
    /\ \E t \in Threads :
         /\ run[t].pc = "idle"
         /\ run' = [run EXCEPT ![t] = [IdleThread EXCEPT !.pc = "sync_to_ab"]]
    /\ clock' = clock + 1
    /\ db' = SubSeq(db, 1, durable)
    /\ UNCHANGED <<durable, universe, debug_mode, last, mapVars, pageVars, ynab, posts, akahu>>

\* A TRANSACTION_CREATED event arrives on an idle thread: the budget is
\* downloaded on the shared client before the load.
ReceiveTransactionArrives ==
    /\ clock < MaxClock
    /\ \E t \in Threads, a \in DOMAIN file :
         /\ run[t].pc = "idle"
         /\ run' = [run EXCEPT ![t] = [IdleThread EXCEPT !.pc = "hook_load",
                                                          !.account = a]]
    /\ clock' = clock + 1
    /\ db' = SubSeq(db, 1, durable)
    /\ UNCHANGED <<durable, universe, debug_mode, last, mapVars, pageVars, ynab, posts, akahu>>

\* sync_to_ab of a thread runs to its return on the shared client: one
\* account has a transaction, which is loaded and committed.
SyncToAbRuns ==
    /\ \E t \in Threads, a \in DOMAIN file :
         /\ run[t].pc = "sync_to_ab"
         /\ \E r \in { LoadTransactionsIntoActual(<<TxnOf(a)>>, mapping_list[a], db,
                                                   durable, clock,
                                                   [fault |-> "none", at |-> 0,
                                                    ruleset |-> None], debug_mode) } :
              /\ db' = r.rows
              /\ durable' = r.durable
         /\ run' = [run EXCEPT ![t].pc = "ab_stamp", ![t].account = a,
                               ![t].successful = {a}]
    /\ UNCHANGED <<callVars, mapVars, pageVars, ynab, posts, akahu>>

\* update_mapping_timestamps, first half: the mapping is loaded from the file
\* and the current time taken.
LoadMappingFile ==
    /\ \E t \in Threads :
         /\ run[t].pc \in {"ab_stamp", "ynab_stamp"}
         /\ run' = [run EXCEPT ![t].pc = IF @ = "ab_stamp" THEN "ab_save" ELSE "ynab_save",
                               ![t].mappings = file,
                               ![t].current_time = clock]
    /\ UNCHANGED <<abVars, callVars, mapVars, pageVars, ynab, posts, akahu>>

\* update_mapping_timestamps, second half: the watermarks are set in the
\* loaded copy, which is saved as the whole file.
SaveMappingFile ==
    /\ \E t \in Threads :
         /\ run[t].pc \in {"ab_save", "ynab_save"}
         /\ file' = IF run[t].pc = "ab_save"
                    THEN UpdateMappingTimestamps(run[t].mappings, run[t].successful, {},
                                                 run[t].current_time)
                    ELSE UpdateMappingTimestamps(run[t].mappings, {}, run[t].successful,
                                                 run[t].current_time)
         /\ last' = [last EXCEPT !.written = @ \cup
                        { [account |-> a,
                           dest |-> IF run[t].pc = "ab_save" THEN "ab" ELSE "ynab",
                           time |-> run[t].current_time] : a \in run[t].successful }]
         /\ run' = [run EXCEPT ![t].pc = IF @ = "ab_save" THEN "sync_to_ynab" ELSE "idle"]
    /\ UNCHANGED <<abVars, clock, universe, debug_mode, mapping_list, pageVars, ynab, posts, akahu>>

\* sync_to_ynab of a thread runs to its return: the account's transaction is
\* cleaned and posted.
SyncToYnabRuns ==
    /\ \E t \in Threads :
         /\ run[t].pc = "sync_to_ynab"
         /\ \E r \in { LoadTransactionsIntoYnab(
                          CleanTxnForYnab(<<TxnOf(run[t].account)>>,
                                          mapping_list[run[t].account].ynab_account_id),
                          ynab, FALSE) } :
              /\ ynab' = r.rows
              /\ posts' = r.posts
         /\ run' = [run EXCEPT ![t].pc = "ynab_stamp"]
    /\ UNCHANGED <<abVars, callVars, mapVars, pageVars, akahu>>

\* receive_transaction of a thread loads the event's transaction on the shared
\* client, posts it to destination A and returns.
HookLoads ==
    /\ \E t \in Threads :
         /\ run[t].pc = "hook_load"
         /\ \E r \in { LoadTransactionsIntoActual(<<TxnOf(run[t].account)>>,
                                                   mapping_list[run[t].account], db,
                                                   durable, clock,
                                                   [fault |-> "none", at |-> 0,
                                                    ruleset |-> None], debug_mode) } :
              /\ db' = r.rows
              /\ durable' = r.durable
         /\ \E y \in { LoadTransactionsIntoYnab(
                          CleanTxnForYnab(<<TxnOf(run[t].account)>>,
                                          mapping_list[run[t].account].ynab_account_id),
                          ynab, FALSE) } :
              /\ ynab' = y.rows
              /\ posts' = y.posts
         /\ run' = [run EXCEPT ![t] = IdleThread]
    /\ UNCHANGED <<callVars, mapVars, pageVars, akahu>>

NextShared ==
    \/ RunFullSyncArrives
    \/ ReceiveTransactionArrives
    \/ SyncToAbRuns
    \/ LoadMappingFile
    \/ SaveMappingFile
    \/ SyncToYnabRuns
    \/ HookLoads

SpecShared == InitShared /\ [][NextShared]_vars

\* The watermark the persisted mapping holds for an account and destination.
PersistedWatermark(a, dest) ==
    IF dest = "ab" THEN file[a].actual_synced_datetime
    ELSE file[a].ynab_synced_datetime

\* No two threads are inside a use of the shared destination-B client.
ClientExclusive ==
    \A s, t \in Threads : (s # t /\ InClient(run[s])) => ~InClient(run[t])

\* Every watermark an update_mapping_timestamps call has saved is in the
\* file, or a later one in its place.
NoLostWatermark ==
    \A w \in last.written : PersistedWatermark(w.account, w.dest) >= w.time

\* C36 (as claimed): with request handlers running at the same time, no two
\* of them use the shared destination-B client at once, and no interleaving
\* of update_mapping_timestamps calls loses a watermark another call saved.
C36_SharedResourcesExclusive == ClientExclusive /\ NoLostWatermark


(***************************************************************************)
(* update_mapping_timestamps on the whole mapping file                     *)
(***************************************************************************)

\* The mapping file: the three reference account lists and the mapping.
MappingFile(mappings) ==
    [ akahu_accounts  |-> <<"acc1", "acc2">>,
      actual_accounts |-> <<"ab1", "ab2">>,
      ynab_accounts   |-> <<"yn1", "yn2">>,
      mapping         |-> mappings ]

\* update_mapping_timestamps from load_existing_mapping to save_mapping: what
\* is saved for what was loaded.
UpdateMappingFile(data, successful_ab_syncs, successful_ynab_syncs, current_time) ==
    [ akahu_accounts  |-> data.akahu_accounts,
      actual_accounts |-> data.actual_accounts,
      ynab_accounts   |-> data.ynab_accounts,
      mapping         |-> UpdateMappingTimestamps(data.mapping, successful_ab_syncs,
                                                  successful_ynab_syncs, current_time) ]

\* The ids a caller may name: accounts of the mapping, and one it lacks.
StampIds == {"acc1", "acc2", "acc3"}

\* update_mapping_timestamps is called for one destination with a set of ids.
CallUpdateMappingTimestamps ==
    /\ clock < MaxClock
    /\ clock' = clock + 1
    /\ \E ids \in SUBSET StampIds, dest \in {"ab", "ynab"} :
         \E saved \in { UpdateMappingFile(MappingFile(file),
                                          IF dest = "ab" THEN ids ELSE {},
                                          IF dest = "ynab" THEN ids ELSE {}, clock) } :
           /\ file' = saved.mapping
           /\ last' = [ op |-> "update_mapping_timestamps", ids |-> ids, dest |-> dest,
                        current_time |-> clock, loaded |-> MappingFile(file),
                        saved |-> saved ]
    /\ UNCHANGED <<abVars, universe, debug_mode, mapping_list, pageVars, passVars>>

NextStamp == CallUpdateMappingTimestamps

\* Any mapping file, before the first call.
InitStamp ==
    /\ QuietFeedAndActual
    /\ universe = <<>>
    /\ file \in Mappings
    /\ mapping_list = file
    /\ QuietPass

SpecStamp == InitStamp /\ [][NextStamp]_vars

\* The entry with the watermark of one destination set.
WithWatermark(entry, dest, time) ==
    IF dest = "ab" THEN [entry EXCEPT !.actual_synced_datetime = time]
    ELSE [entry EXCEPT !.ynab_synced_datetime = time]

\* The entry is flagged do-not-sync for a destination.
Flagged(entry, dest) ==
    IF dest = "ab" THEN entry.actual_do_not_map ELSE entry.ynab_do_not_map

\* C37: update_mapping_timestamps, called with a set of ids for one
\* destination, saves the file it loaded with one change: in the entry of
\* every named id that the mapping holds and that is not flagged do-not-sync
\* for that destination, that destination's watermark is the one common
\* current time; every other entry, every other field, the other
\* destination's watermarks, the set of accounts and the three reference
\* lists are as loaded, and a named id the mapping lacks changes nothing.
C37_StampsOnlyTheWatermark ==
    (last.op = "update_mapping_timestamps") =>
        /\ DOMAIN last.saved = DOMAIN last.loaded
        /\ last.saved.akahu_accounts = last.loaded.akahu_accounts
        /\ last.saved.actual_accounts = last.loaded.actual_accounts
        /\ last.saved.ynab_accounts = last.loaded.ynab_accounts
        /\ DOMAIN last.saved.mapping = DOMAIN last.loaded.mapping
        /\ \A a \in DOMAIN last.loaded.mapping :
              last.saved.mapping[a] =
                 IF a \in last.ids /\ ~Flagged(last.loaded.mapping[a], last.dest)
                 THEN WithWatermark(last.loaded.mapping[a], last.dest, last.current_time)
                 ELSE last.loaded.mapping[a]
        /\ file = last.saved.mapping

\* A call for destination A that named both accounts and an id the mapping
\* lacks: one account, stamped for destination B by an earlier call, got the
\* new watermark beside the old one, the other is flagged and stayed as it
\* was.
C37_Witness ==
    /\ last.op = "update_mapping_timestamps"
    /\ last.dest = "ynab"
    /\ last.ids = StampIds
    /\ \E a, b \in DOMAIN file :
          /\ file[a].ynab_synced_datetime = last.current_time
          /\ file[a].actual_synced_datetime # NoWatermark
          /\ file[a].actual_synced_datetime # last.current_time
          /\ file[b].ynab_do_not_map
          /\ file[b] = last.loaded.mapping[b]


(***************************************************************************)
(* A Tracking account whose source balance cannot be read                  *)
(***************************************************************************)

\* The account is a Tracking account that the running pass dispatches and
\* for which get_akahu_balance gives no value.
BalanceUnreadable(a) ==
    /\ run.pc # "idle"
    /\ mapping_list[a].account_type = "Tracking"
    /\ DispatchedOnType(mapping_list[a], run.dest)
    /\ GetAkahuBalance(akahu, a) = NoBalance

\* C38 (as claimed): a Tracking account whose source balance cannot be read
\* is passed over by sync_to_ab and by sync_to_ynab alike: no adjustment is
\* written for it, it is not counted as synced, and the pass does not end in
\* an exception at it.
C38_UnreadableBalanceSkipped ==
    \A a \in DOMAIN mapping_list :
        BalanceUnreadable(a) =>
            /\ AdjustmentsActual(db, mapping_list[a].actual_account_id) = {}
            /\ AdjustmentsYnab(ynab, mapping_list[a].ynab_account_id) = {}
            /\ a \notin run.successful
            /\ ~RaisedAt(a)

\* The half of C38 that concerns sync_to_ab, where the account is skipped
\* with `continue` and the pass can go on to its end.
C38_UnreadableBalanceSkippedByAb ==
    \A a \in DOMAIN mapping_list :
        (BalanceUnreadable(a) /\ run.dest = "ab") =>
            /\ AdjustmentsActual(db, mapping_list[a].actual_account_id) = {}
            /\ a \notin run.successful
            /\ <<a, "ab">> \notin run.touched
            /\ ~RaisedAt(a)

\* sync_to_ab went past a Tracking account without a readable balance and
\* finished.
C38_AbPassGoesOn ==
    \E a \in DOMAIN mapping_list :
        /\ BalanceUnreadable(a)
        /\ run.dest = "ab"
        /\ run.pc = "done"


\* What sync_to_ynab does instead: it never gets past such an account,
\* whatever else succeeds or fails, so a pass over it never completes.
C38_YnabPassNeverGetsPast ==
    \A a \in DOMAIN mapping_list :
        (BalanceUnreadable(a) /\ run.dest = "ynab") =>
            /\ run.idx <= PosIn(run.order, a)
            /\ run.pc # "done"
            /\ a \notin run.successful


(***************************************************************************)
(* The self-test of the /test endpoint: run_transaction_tests              *)
(***************************************************************************)

\* The mapping lists the self-test may be started with: two accounts of any
\* profile, one account of any profile, or no account at all.
TesterMappings ==
    Mappings
    \cup { [ a \in {"acc1"} |-> p ] : p \in Profiles("ab1", "yn1") }
    \cup { [ a \in {} |-> Entry(None, None, FALSE, None, FALSE) ] }

\* The keys in the order mapping_list.values() yields the entries.
TestOrder(mappings) == SelectSeq(AccountOrder, LAMBDA a : a \in DOMAIN mappings)

\* not mapping.get("actual_do_not_map") and mapping.get("actual_account_id")
ValidTestMapping(mapping) ==
    ~mapping.actual_do_not_map /\ mapping.actual_account_id # None

\* A test transaction built from TEST_TRANSACTION_TEMPLATE (amount in E5).
TestTxn(id, amount, description) ==
    [ _id |-> id, date |-> 12, amount |-> amount, description |-> description ]

\* The state the tests work on at the start of a run.
TestStart(mappings, rows, dur, yrows) ==
    [ rows |-> rows, durable |-> dur, ynab |-> yrows, posts |-> <<>>,
      mapping |-> mappings, targets |-> {}, outcome |-> "ok" ]

\* raise Exception("Test failed: ...")
TestFailed(s) == [s EXCEPT !.outcome = "test failed"]

\* A test is called with the mapping of account key.
TestTarget(s, test, key) ==
    [s EXCEPT !.targets = @ \cup {[test |-> test, account |-> key]}]

\* What a load with result r leaves of the state of the tests: the entry of
\* the mapping list itself was passed, so its watermark is stamped in place.
TesterLoaded(s, key, r) ==
    [s EXCEPT !.rows = r.rows, !.durable = r.durable, !.mapping[key] = r.entry,
              !.outcome = IF r.status = "raised" THEN "raised" ELSE "ok"]

\* load_transactions_into_actual(test_txn, test_mapping, actual_client) as a
\* test calls it; without an account id the library finds no account and the
\* load raises.
TesterLoad(s, key, txn, now, env) ==
    IF s.mapping[key].actual_account_id = None
    THEN [s EXCEPT !.outcome = "raised"]
    ELSE TesterLoaded(s, key,
                      LoadTransactionsIntoActual(<<txn>>, s.mapping[key], s.rows,
                                                 s.durable, now, env, None))

\* created_txn.tombstone = 1; session.add; session.commit()
TestCleanup(s, i) ==
    [s EXCEPT !.rows[i].tombstone = TRUE, !.durable = Len(s.rows)]

\* The lowest row id of a non-empty set: what .first() returns.
FirstOf(ids) == CHOOSE i \in ids : \A j \in ids : i <= j

\* The live rows with a financial_id.
LiveWithId(rows, id) ==
    { i \in 1..Len(rows) : rows[i].financial_id = id /\ ~rows[i].tombstone }

\* The verification query of the first test on the state c the load left:
\* financial_id, amount int(10.00 * -100) and the account; the row found is
\* tombstoned.
InitialVerified(c, test_id, acct) ==
    LET created == { i \in 1..Len(c.rows) :
                       /\ c.rows[i].financial_id = test_id
                       /\ c.rows[i].amount = -1000
                       /\ c.rows[i].acct = acct }
    IN  IF c.outcome = "raised" THEN c
        ELSE IF created = {} THEN TestFailed(c)
        ELSE TestCleanup(c, FirstOf(created))

\* run_initial_transaction_test: pre-check by financial_id, load of a 10.00
\* transaction, verification and cleanup.
RunInitialTransactionTest(s, key, now, env) ==
    IF \E i \in 1..Len(s.rows) : s.rows[i].financial_id = "test_txn_1"
    THEN TestFailed(s)
    ELSE InitialVerified(TesterLoad(s, key,
                                    TestTxn("test_txn_1", 1000000, "Test Transaction 1"),
                                    now, env),
                         "test_txn_1", s.mapping[key].actual_account_id)

\* The checks of the second test after the second load left state b: one
\* live row, with the id, amount and sort order of the original o.
DuplicateVerified(b, test_id, o) ==
    LET transactions == LiveWithId(b.rows, test_id)
        cur == FirstOf(transactions)
    IN  IF b.outcome = "raised" THEN b
        ELSE IF Cardinality(transactions) # 1 THEN TestFailed(b)
        ELSE IF \/ b.rows[cur].id # o.id
                \/ b.rows[cur].amount # o.amount
                \/ b.rows[cur].sort_order # o.sort_order
        THEN TestFailed(b)
        ELSE TestCleanup(b, cur)

\* The second test after the first load left state a.
DuplicateLoaded(a, key, txn, now, env) ==
    IF a.outcome = "raised" THEN a
    ELSE IF LiveWithId(a.rows, txn._id) = {} THEN TestFailed(a)
    ELSE DuplicateVerified(TesterLoad(a, key, txn, now, env), txn._id,
                           a.rows[FirstOf(LiveWithId(a.rows, txn._id))])

\* run_duplicate_transaction_test: the same transaction loaded twice must
\* leave one live row with the id, amount and sort order of the first load.
RunDuplicateTransactionTest(s, key, now, env) ==
    DuplicateLoaded(TesterLoad(s, key,
                               TestTxn("test_txn_1", 1000000, "Test Transaction 1"),
                               now, env),
                    key, TestTxn("test_txn_1", 1000000, "Test Transaction 1"),
                    now, env)

\* The third test after the POST with result r: load_transactions_into_ynab
\* returns a count, so `ynab_response and "data" in ynab_response` is falsy
\* for 0 and raises TypeError for any other count.
YnabPosted(a, r) ==
    [a EXCEPT !.ynab = r.rows, !.posts = r.posts,
              !.outcome = IF r.status = "raised" THEN "raised"
                          ELSE IF r.count = 0 THEN "test failed"
                          ELSE "TypeError"]

\* The third test after the load into destination B left state a: the
\* transactions of the destination-A budget are fetched, and the cleaned
\* transaction is posted.
YnabLoaded(a, entry, txn, fault) ==
    IF a.outcome = "raised" THEN a
    ELSE IF fault = "balance" \/ entry.ynab_budget_id = None
    THEN [a EXCEPT !.outcome = "raised"]
    ELSE YnabPosted(a, LoadTransactionsIntoYnab(
                           CleanTxnForYnab(<<txn>>, entry.ynab_account_id),
                           a.ynab, fault = "post"))

\* run_ynab_integration_test: a 15.00 transaction is loaded into destination
\* B and then posted to destination A. fault: "none", "balance" (the GET of
\* the budget's transactions fails), "post".
RunYnabIntegrationTest(s, key, now, env, fault) ==
    YnabLoaded(TesterLoad(s, key,
                          TestTxn("test_txn_1", 1500000, "Test Transaction YNAB"),
                          now, env),
               s.mapping[key], TestTxn("test_txn_1", 1500000, "Test Transaction YNAB"),
               fault)

\* The checks of the fourth test after the second load left state b: a live
\* row with the id, amount int(25.00 * -100), the new description and the
\* row id of the first load; it is tombstoned.
UpdateVerified(b, update_id, updated_desc, original_id) ==
    LET updated == LiveWithId(b.rows, update_id)
        u == FirstOf(updated)
    IN  IF b.outcome = "raised" THEN b
        ELSE IF updated = {} THEN TestFailed(b)
        ELSE IF \/ b.rows[u].amount # -2500
                \/ b.rows[u].imported_description # updated_desc
                \/ b.rows[u].id # original_id
        THEN TestFailed(b)
        ELSE TestCleanup(b, u)

\* The fourth test after the first load left state a: the row is looked up
\* by id, amount int(20.00 * -100) and account, then loaded again as 25.00
\* with a new description.
UpdateLoaded(a, key, update_id, initial_desc, updated_desc, now, env) ==
    LET initial == { i \in LiveWithId(a.rows, update_id) :
                       /\ a.rows[i].amount = -2000
                       /\ a.rows[i].acct = a.mapping[key].actual_account_id }
    IN  IF a.outcome = "raised" THEN a
        ELSE IF initial = {} THEN TestFailed(a)
        ELSE IF a.rows[FirstOf(initial)].imported_description # initial_desc
        THEN TestFailed(a)
        ELSE UpdateVerified(TesterLoad(a, key,
                                       TestTxn(update_id, 2500000, updated_desc),
                                       now, env),
                            update_id, updated_desc, FirstOf(initial))

\* run_transaction_update_test: pre-check, load of a 20.00 transaction,
\* verification, update and cleanup.
RunTransactionUpdateTest(s, key, now, env) ==
    IF LiveWithId(s.rows, "test_txn_update_1") # {}
    THEN TestFailed(s)
    ELSE UpdateLoaded(TesterLoad(s, key,
                                 TestTxn("test_txn_update_1", 2000000,
                                         "Test Transaction 2 - Original"),
                                 now, env),
                      key, "test_txn_update_1", "Test Transaction 2 - Original",
                      "Test Transaction 2 - Updated", now, env)

\* A test that is run only when the tests before it raised nothing.
AfterFirstTest(s1, key, now, env) ==
    IF s1.outcome # "ok" THEN s1
    ELSE RunDuplicateTransactionTest(TestTarget(s1, 2, key), key, now, env)

\* The first two tests, run on the first valid mapping when there is one.
FirstTests(s, found, key, now, env) ==
    IF ~found THEN s
    ELSE AfterFirstTest(RunInitialTransactionTest(TestTarget(s, 1, key), key, now, env),
                        key, now, env)

\* The mapping the search loop selects: the first valid one in the order of
\* the list, or none.
SelectedMapping(mappings) ==
    LET order == TestOrder(mappings)
        valid == { k \in 1..Len(order) : ValidTestMapping(mappings[order[k]]) }
    IN  IF valid = {} THEN None ELSE order[FirstOf(valid)]

\* What the loop variable `mapping` is left on: the valid mapping when the
\* loop stopped at one, the last entry of the list when it ran to the end,
\* and nothing (unbound) when the list is empty.
LoopVariable(mappings) ==
    IF SelectedMapping(mappings) # None THEN SelectedMapping(mappings)
    ELSE IF TestOrder(mappings) = <<>> THEN None
    ELSE TestOrder(mappings)[Len(TestOrder(mappings))]

\* test_mapping = mapping, and the third test if that mapping has a
\* destination-A account id; s2 is the state the first two tests left.
ThirdTest(s2, key, now, env, fault) ==
    IF s2.outcome # "ok" THEN s2
    ELSE IF key = None THEN [s2 EXCEPT !.outcome = "UnboundLocalError"]
    ELSE IF s2.mapping[key].ynab_account_id # None
    THEN RunYnabIntegrationTest(TestTarget(s2, 3, key), key, now, env, fault)
    ELSE s2

\* return {"status": "completed", ...}
AfterLastTest(s4) ==
    IF s4.outcome # "ok" THEN s4 ELSE [s4 EXCEPT !.outcome = "completed"]

\* The fourth test, called whatever the mapping holds; s3 is the state the
\* tests before it left.
FourthTest(s3, key, now, env) ==
    IF s3.outcome # "ok" THEN s3
    ELSE AfterLastTest(RunTransactionUpdateTest(TestTarget(s3, 4, key), key, now, env))

\* run_transaction_tests(actual_client, mapping_list, env_vars), as GET /test
\* runs it once on the mapping list and the session of the application: the
\* loop stops at the first valid mapping; without one an error is logged and
\* the first two tests are left out; the last two tests run on the mapping
\* the loop variable was left on.
RunTransactionTests ==
    /\ last.op = "none"
    /\ \E env \in Envs(1), fault \in {"none", "balance", "post"} :
         \E s2 \in { FirstTests(TestStart(mapping_list, db, durable, ynab),
                                SelectedMapping(mapping_list) # None,
                                SelectedMapping(mapping_list), clock, env) } :
         \E s3 \in { ThirdTest(s2, LoopVariable(mapping_list), clock, env, fault) } :
         \E s \in { FourthTest(s3, LoopVariable(mapping_list), clock, env) } :
           /\ db' = s.rows
           /\ durable' = s.durable
           /\ ynab' = s.ynab
           /\ posts' = s.posts
           /\ mapping_list' = s.mapping
           /\ last' = [ op |-> "tests", targets |-> s.targets,
                        outcome |-> s.outcome, mapping0 |-> mapping_list ]
    /\ UNCHANGED <<clock, universe, debug_mode, file, akahu, run, pageVars>>

NextTester == RunTransactionTests

InitTester ==
    /\ QuietFeedAndActual
    /\ universe = <<>>
    /\ file \in TesterMappings
    /\ mapping_list = file
    /\ QuietPass

SpecTester == InitTester /\ [][NextTester]_vars

\* C39: whatever the mapping list, each of the four tests of
\* run_transaction_tests is run only against a mapping that has a
\* destination-B account id and is not excluded from destination B, and the
\* run ends by returning or with a test error, never with an unrelated crash.
C39_TestsOnlyOnValidMapping ==
    last.op = "tests" =>
        /\ \A t \in last.targets : ValidTestMapping(last.mapping0[t.account])
        /\ last.outcome \in {"completed", "test failed", "raised"}

\* C39, the part the code keeps: the first two tests are run only against a
\* valid mapping.
C39_FirstTestsOnValidMapping ==
    last.op = "tests" =>
        \A t \in last.targets :
            t.test \in {1, 2} => ValidTestMapping(last.mapping0[t.account])

\* C39: a run that wrote a test row into the destination-B account of a
\* mapping excluded from destination B.
C39_WroteIntoSkippedAccount ==
    /\ last.op = "tests"
    /\ \E a \in DOMAIN last.mapping0 :
         /\ last.mapping0[a].actual_do_not_map
         /\ \E i \in 1..Len(db) : db[i].acct = last.mapping0[a].actual_account_id

\* C39: a run on an empty mapping list that ended with UnboundLocalError.
C39_EmptyListCrashes ==
    /\ last.op = "tests"
    /\ DOMAIN last.mapping0 = {}
    /\ last.outcome = "UnboundLocalError"


(***************************************************************************)
(* The gate of the receive-transaction webhook: signature and event type   *)
(***************************************************************************)

\* The bodies a request may carry: an event type (None: no "type" key) about
\* an account, known to the mapping or not.
HookBodies ==
    [ type : {"TRANSACTION_CREATED", "TRANSACTION_DELETED", None},
      account : {"acc1", "acc2", "acc9"} ]

\* The X-Akahu-Signature headers that may come with a body: a signature made
\* with some key over some body, or none (key None).
HookSignatures(body) ==
    { [key |-> k, body |-> b] :
        k \in {"akahu", "mallory", None},
        b \in {body, [body EXCEPT !.account = "acc9"]} }

\* The requests one behaviour of the gate handles.
MaxHookRequests == 2

\* A verification that lets every signature pass.
VerifySignature_Accepting(public_key, signature, request_body) == "ok"

\* verify_signature(public_key, signature, request_body): public_key.verify
\* returns for a signature made over this body with the matching private key
\* and raises for any other; a missing header fails in b64decode.
VerifySignature(public_key, signature, request_body) ==
    IF signature.key = public_key /\ signature.body = request_body
    THEN "ok"
    ELSE "raised"

\* A request that ended before the mapping was looked at.
HookStopped(signature, body, response) ==
    /\ last' = [ op |-> "request", signature |-> signature, body |-> body,
                 response |-> response, actual |-> "not reached",
                 ynab |-> "not reached", touched |-> {} ]
    /\ UNCHANGED <<abVars, ynab, posts, run>>

\* receive_transaction for any POST: the signature is verified first and an
\* exception of the verification ends the request; an event of another type
\* is answered "ignored"; a body without a type, or about an account that is
\* no key of the mapping, raises KeyError. Only then the two halves run, as
\* for the events ReceiveTransaction covers.
ReceiveTransactionRequest ==
    /\ run.pc # "loop"
    /\ clock <= MaxHookRequests
    /\ clock' = clock + 1
    /\ \E body \in HookBodies :
       \E signature \in HookSignatures(body) :
         /\ body.account \in DOMAIN file => akahu[body.account].txns # <<>>
         /\ IF VerifySignature("akahu", signature, body) = "raised"
            THEN HookStopped(signature, body, "raised")
            ELSE IF body.type = None
            THEN HookStopped(signature, body, "raised")
            ELSE IF body.type # "TRANSACTION_CREATED"
            THEN HookStopped(signature, body, "ignored")
            ELSE IF body.account \notin DOMAIN file
            THEN HookStopped(signature, body, "raised")
            ELSE
              \E env \in Envs(1), fault \in {"none", "balance", "post"} :
              \E b \in { HookActual(file[body.account], akahu[body.account].txns[1],
                                    db, durable, clock, env, debug_mode) } :
              \E y \in { IF b.status = "raised"
                         THEN [ status |-> "not reached", rows |-> ynab,
                                posts |-> <<>>, touched |-> FALSE ]
                         ELSE HookYnab(file[body.account],
                                       akahu[body.account].txns[1],
                                       GetAkahuBalance(akahu, body.account),
                                       ynab, clock, fault) } :
                /\ db' = b.rows
                /\ durable' = b.durable
                /\ ynab' = y.rows
                /\ posts' = y.posts
                /\ run' = [run EXCEPT !.touched =
                             @ \cup (IF b.touched THEN {<<body.account, "ab">>} ELSE {})
                               \cup (IF y.touched THEN {<<body.account, "ynab">>} ELSE {})]
                /\ last' = [ op |-> "request", signature |-> signature,
                             body |-> body,
                             response |-> IF "raised" \in {b.status, y.status}
                                          THEN "raised" ELSE "success",
                             actual |-> b.status, ynab |-> y.status,
                             touched |-> (IF b.touched THEN {"ab"} ELSE {})
                                         \cup (IF y.touched THEN {"ynab"} ELSE {}) ]
    /\ UNCHANGED <<universe, debug_mode, mapVars, pageVars, akahu>>

NextGate == ReceiveTransactionRequest

SpecGate == InitHook /\ [][NextGate]_vars

\* The signature was made by the source over the body of the request.
SignedBySource(r) == r.signature.key = "akahu" /\ r.signature.body = r.body

\* The request is one the webhook may act on.
PassesGate(r) == SignedBySource(r) /\ r.body.type = "TRANSACTION_CREATED"

\* C40: a request to the receive-transaction webhook whose signature does not
\* verify, or whose event type is not TRANSACTION_CREATED, causes no read and
\* no write of either destination and leaves the mapping as it was.
C40_NothingBeforeTheGate ==
    [][ (last'.op = "request" /\ ~PassesGate(last'))
          => /\ UNCHANGED <<db, durable, ynab, posts, mapping_list, file>>
             /\ last'.touched = {}
             /\ last'.response \in {"raised", "ignored"} ]_vars

\* C40: a request with a forged signature about a transaction that a genuine
\* request would have loaded into destination B has been handled.
C40_Witness ==
    /\ last.op = "request"
    /\ last.signature.key = "mallory"
    /\ last.body.type = "TRANSACTION_CREATED"
    /\ last.body.account \in DOMAIN file
    /\ ~file[last.body.account].actual_do_not_map
    /\ file[last.body.account].actual_account_id # None
    /\ last.response = "raised"

\* C40: a genuine TRANSACTION_CREATED request got through to a destination.
C40_GenuineRequestServed ==
    /\ last.op = "request"
    /\ PassesGate(last)
    /\ last.touched # {}
    /\ db # <<>>

\* C40: a genuine request of another event type has been answered "ignored".
C40_OtherTypeIgnored ==
    /\ last.op = "request"
    /\ SignedBySource(last)
    /\ last.body.type = "TRANSACTION_DELETED"
    /\ last.response = "ignored"

=============================================================================
